---- MODULE Spec2Model ----
(***************************************************************************)
(* granola-cli: the source-resolution layer of the command line client.    *)
(* One behaviour of the model is one invocation of the CLI: the options    *)
(* and arguments are fixed in Init, the environment (token file, cache     *)
(* file, remote service) answers each effect, and the handlers of          *)
(* src/src/cli.ts run as sequences of steps, one step per effect.          *)
(*                                                                         *)
(* Encodings.  A JavaScript string is a sequence of one-character strings; *)
(* the empty sequence stands for both "" and undefined (both are falsy and *)
(* the code only ever tests them with ||, ! and ?.).  A nullable object is *)
(* a sequence of length 0 (null/undefined) or 1.  An ISO date string is    *)
(* the natural number of the instant it denotes, 0 when the field is       *)
(* absent, BadDate when the string does not parse.                         *)
(***************************************************************************)
EXTENDS Integers, Sequences, FiniteSets, TLC

\* ------------------------------------------------------------------ strings

UpperToLower ==
  [c \in {"A", "B", "C", "D", "E", "F", "G", "H", "I", "J", "K", "L", "M", "N", "O", "P", "Q", "R", "S", "T", "U", "V", "W", "X", "Y", "Z"} |->
     CASE c = "A" -> "a" [] c = "B" -> "b" [] c = "C" -> "c" [] c = "D" -> "d"
       [] c = "E" -> "e" [] c = "F" -> "f" [] c = "G" -> "g" [] c = "H" -> "h"
       [] c = "I" -> "i" [] c = "J" -> "j" [] c = "K" -> "k" [] c = "L" -> "l"
       [] c = "M" -> "m" [] c = "N" -> "n" [] c = "O" -> "o" [] c = "P" -> "p"
       [] c = "Q" -> "q" [] c = "R" -> "r" [] c = "S" -> "s" [] c = "T" -> "t"
       [] c = "U" -> "u" [] c = "V" -> "v" [] c = "W" -> "w" [] c = "X" -> "x"
       [] c = "Y" -> "y" [] c = "Z" -> "z"]

\* String.prototype.toLowerCase
toLowerCase(s) ==
  [i \in 1..Len(s) |-> IF s[i] \in DOMAIN UpperToLower THEN UpperToLower[s[i]] ELSE s[i]]

\* String.prototype.includes
includes(hay, needle) ==
  \E i \in 0..(Len(hay) - Len(needle)) :
    \A j \in 1..Len(needle) : hay[i + j] = needle[j]

\* String.prototype.startsWith
startsWith(s, prefix) ==
  /\ Len(prefix) <= Len(s)
  /\ \A j \in 1..Len(prefix) : s[j] = prefix[j]

RECURSIVE TrimLeft(_)
TrimLeft(s) == IF s # <<>> /\ Head(s) \in {" ", "\n"} THEN TrimLeft(Tail(s)) ELSE s

RECURSIVE TrimRight(_)
TrimRight(s) ==
  IF s # <<>> /\ s[Len(s)] \in {" ", "\n"} THEN TrimRight(SubSeq(s, 1, Len(s) - 1)) ELSE s

\* String.prototype.trim
trim(s) == TrimRight(TrimLeft(s))

\* a || b on strings
OrStr(a, b) == IF a # <<>> THEN a ELSE b

\* Array.prototype.filter, keeping order
RECURSIVE SelectIdx(_, _, _)
SelectIdx(s, keep, i) ==
  IF i > Len(s) THEN <<>>
  ELSE (IF keep[i] THEN <<s[i]>> ELSE <<>>) \o SelectIdx(s, keep, i + 1)

\* Array.prototype.find: the first element satisfying the test, as a nullable
FindFirst(s, ok) ==
  IF \E i \in 1..Len(s) : ok[i]
  THEN <<s[CHOOSE i \in 1..Len(s) : ok[i] /\ \A j \in 1..(i - 1) : ~ok[j]]>>
  ELSE <<>>

\* Array.prototype.slice(0, end), with the native treatment of a negative end
slice0(s, end) ==
  LET n == Len(s)
      k == IF end < 0 THEN (IF n + end < 0 THEN 0 ELSE n + end)
           ELSE (IF end > n THEN n ELSE end)
  IN SubSeq(s, 1, k)

\* -------------------------------------------------------------------- dates

BadDate == -1
NaN == -2

\* new Date(x).getTime(), x a date string or the number 0
getTime(x) == IF x = BadDate THEN NaN ELSE x

\* a || b on date strings (and on the literal 0)
OrDate(a, b) == IF a # 0 THEN a ELSE b


\* ---------------------------------------------------------------- documents

\* Document (types.ts): the fields the resolution layer reads
Doc(id, title, type, created, updated, md, plain, trashed, people, cal, panel) ==
  [id |-> id, title |-> title, type |-> type, created_at |-> created,
   updated_at |-> updated, notes_markdown |-> md, notes_plain |-> plain,
   was_trashed |-> trashed, people |-> people, google_calendar_event |-> cal,
   last_viewed_panel |-> panel]

\* doc.people: an array, a keyed map, or absent
People(shape, entries) == [shape |-> shape, entries |-> entries]
NoPeople == People("none", <<>>)

Meeting == <<"m", "e", "e", "t", "i", "n", "g">>
Note == <<"n", "o", "t", "e">>

Id_a1 == <<"a", "1">>
Id_a12 == <<"a", "1", "2">>
Id_b2 == <<"b", "2">>
Id_c3 == <<"c", "3">>
Id_d4 == <<"d", "4">>
Id_e5 == <<"e", "5">>
Id_g6 == <<"g", "6">>
Id_f1 == <<"f", "1">>
Id_f2 == <<"f", "2">>

T_Standup == <<"S", "t", "a", "n", "d", "u", "p">>
T_Sales == <<"S", "a", "l", "e", "s">>
T_Sam == <<"1", ":", "1", " ", "S", "a", "m">>
T_Retro == <<"R", "e", "t", "r", "o">>
T_Ops == <<"O", "p", "s">>

\* ------------------------------------------------------------ remote service

\* the documents the service holds, in the order it serves them
RemoteDocs ==
  << Doc(Id_a12, T_Sales, Meeting, 3, 0, <<>>, <<"r", "p">>, FALSE, NoPeople,
         <<[start |-> 3, attendees |-> <<[displayName |-> <<"A", "n", "n">>, email |-> <<>>]>>]>>,
         <<"r", "3", "\n">>),
     Doc(Id_b2, T_Sam, Meeting, 1, 6, <<"r", "b">>, <<>>, TRUE, NoPeople, <<>>, <<>>),
     Doc(Id_a1, T_Standup, Meeting, 2, 5, <<"r", "n">>, <<>>, FALSE,
         People("array", <<[name |-> <<"S", "a", "m">>, email |-> <<"s", "@", "x">>]>>),
         <<>>, <<" ", "r", "s", " ">>),
     Doc(Id_c3, T_Standup, Note, 1, 7, <<>>, <<>>, FALSE, NoPeople, <<>>, <<>>),
     Doc(Id_d4, T_Retro, Meeting, 0, 0, <<>>, <<>>, FALSE,
         People("map", <<[name |-> <<>>, email |-> <<"S", "A", "M", "@", "y">>]>>),
         <<[start |-> 4, attendees |-> <<>>]>>, <<>>),
     Doc(Id_g6, <<"K", "i", "c", "k">>, Meeting, 0, 0, <<>>, <<>>, FALSE, NoPeople, <<>>, <<>>) >>

\* DocumentList (types.ts): the folders the service holds
RemoteLists ==
  << [id |-> Id_f2, title |-> <<>>, name |-> T_Ops, has_document_ids |-> FALSE,
      document_ids |-> <<>>, documents |-> <<Id_d4>>],
     [id |-> Id_f1, title |-> T_Sales, name |-> <<>>, has_document_ids |-> TRUE,
      document_ids |-> <<Id_a1, Id_a12>>, documents |-> <<>>] >>

Microphone == <<"m", "i", "c", "r", "o", "p", "h", "o", "n", "e">>
System == <<"s", "y", "s", "t", "e", "m">>

\* TranscriptSegment (types.ts)
Seg(text, source, speaker, ts) ==
  [text |-> text, source |-> source, speaker |-> speaker, start_timestamp |-> ts]

\* the body the service answers a transcript request with: a bare array, an
\* object carrying a transcript field, or an object without one
RemoteTranscriptBody(id) ==
  IF id = Id_a1
    THEN [shape |-> "array",
          segs |-> <<Seg(<<"r", "1">>, Microphone, <<>>, <<"0", "1">>),
                     Seg(<<"r", "2">>, System, <<>>, <<>>)>>]
  ELSE IF id = Id_a12
    THEN [shape |-> "wrapped", segs |-> <<Seg(<<"r", "3">>, <<>>, <<"B", "o">>, <<>>)>>]
  ELSE IF id = Id_d4
    THEN [shape |-> "array", segs |-> <<>>]
  ELSE [shape |-> "object", segs |-> <<>>]

\* the people and the workspaces the service holds
RemotePeople ==
  << [name |-> <<"A", "n", "n">>, email |-> <<"a", "@", "x">>],
     [name |-> <<>>, email |-> <<"S", "a", "m", "@", "y">>] >>

RemoteWorkspaces == << <<"w", "r">> >>

\* the answer to get-document-metadata: the record without its panel, or
\* nothing when the service does not know the id
RemoteMetadata(id) ==
  LET hit == FindFirst(RemoteDocs, [i \in 1..Len(RemoteDocs) |-> RemoteDocs[i].id = id])
  IN IF hit = <<>> THEN <<>>
     ELSE <<[hit[1] EXCEPT !.last_viewed_panel = <<>>,
                           !.id = IF id = Id_d4 THEN <<>> ELSE id]>>

\* the answer to get-documents: at most min(limit, pageSize) records from the
\* cursor on, and the cursor of the rest (0 when nothing is left)
ServePage(limit, cursor, withPanel, pageSize) ==
  LET n == IF limit < pageSize THEN limit ELSE pageSize
      last == IF cursor + n < Len(RemoteDocs) THEN cursor + n ELSE Len(RemoteDocs)
      page == SubSeq(RemoteDocs, cursor + 1, last)
  IN [docs |-> [i \in 1..Len(page) |->
                  IF withPanel THEN page[i] ELSE [page[i] EXCEPT !.last_viewed_panel = <<>>]],
      next_cursor |-> IF last < Len(RemoteDocs) THEN last ELSE 0]

\* ------------------------------------------------------------ cache snapshot

\* CacheState (types.ts).  A map is a sequence of <<key, value>> pairs in the
\* snapshot's own key order.
CacheFile ==
  [documents |->
     << <<Id_a1, Doc(Id_a1, T_Standup, Meeting, 2, 4, <<"c", "n">>, <<>>, FALSE,
                     People("map", <<[name |-> <<"S", "a", "m">>, email |-> <<>>]>>),
                     <<>>, <<>>)>>,
        <<Id_b2, Doc(Id_b2, T_Sam, Meeting, 1, 6, <<"c", "b">>, <<>>, TRUE, NoPeople,
                     <<>>, <<>>)>>,
        <<Id_a12, Doc(Id_a12, T_Sales, Meeting, 3, 9, <<>>, <<"c", "p">>, FALSE, NoPeople,
                      <<>>, <<>>)>>,
        <<Id_c3, Doc(Id_c3, T_Standup, Note, 1, 7, <<>>, <<>>, FALSE, NoPeople,
                     <<>>, <<>>)>>,
        <<Id_g6, Doc(Id_g6, <<"K", "i", "c", "k">>, Meeting, 0, 0, <<>>, <<>>, FALSE, NoPeople,
                     <<>>, <<>>)>> >>,
   transcripts |->
     << <<Id_a1, <<Seg(<<"c", "1">>, Microphone, <<>>, <<>>)>> >>,
        <<Id_a12, <<>> >>,
        <<Id_e5, <<Seg(<<"c", "5">>, <<>>, <<>>, <<>>)>> >> >>,
   documentPanels |->
     << <<Id_a1, << <<"p1", [content |-> <<"c", "s">>]>>, <<"p2", [content |-> <<"c", "x">>]>> >> >>,
        <<Id_a12, <<>> >>,
        <<Id_e5, << <<"p3", [content |-> <<"c", "5">>]>> >> >> >>,
   documentLists |->
     << <<Id_f1, <<Id_a1, Id_b2, Id_e5>> >>, <<Id_f2, <<Id_a12>> >> >>,
   documentListsMetadata |->
     << <<Id_f2, [id |-> Id_f2, title |-> <<>>, name |-> T_Ops, deleted_at |-> 8]>>,
        <<Id_f1, [id |-> Id_f1, title |-> T_Sales, name |-> <<>>, deleted_at |-> 0]>> >>,
   people |->
     << <<"u1", [name |-> <<"S", "a", "m">>, email |-> <<"s", "@", "x">>]>>,
        <<"u2", [name |-> <<>>, email |-> <<"n", "@", "x">>]>> >>,
   sharedDocuments |->
     << <<Id_d4, [id |-> Id_d4, title |-> T_Retro]>>, <<Id_e5, [id |-> <<>>, title |-> <<>>]>> >>,
   workspaces |-> << <<"w", "c">> >>]

\* Object.values(map)
Values(map) == [i \in 1..Len(map) |-> map[i][2]]

\* map[key], as a nullable
Lookup(map, key) ==
  IF \E i \in 1..Len(map) : map[i][1] = key
  THEN <<map[CHOOSE i \in 1..Len(map) : map[i][1] = key][2]>>
  ELSE <<>>

\* ------------------------------------------------------------------ sorting

\* Array.prototype.sort with a comparator that is a strict weak order: lt[i][j]
\* says the comparator puts s[i] before s[j]; elements it ranks equal keep their
\* original order (the sort is stable)
SortStable(s, lt) ==
  LET n == Len(s)
      pos(i) == Cardinality({j \in 1..n : lt[j][i]})
                + Cardinality({j \in 1..(i - 1) : ~lt[j][i] /\ ~lt[i][j]}) + 1
  IN [k \in 1..n |-> s[CHOOSE i \in 1..n : pos(i) = k]]

\* the collation order String.prototype.localeCompare ranks characters by
Alphabet ==
  <<" ", "(", ")", ":", "@", "0", "1", "2", "3", "4", "5", "6", "7", "8", "9",
    "a", "b", "c", "d", "e", "f", "g", "h", "i", "j", "k", "l", "m", "n", "o", "p",
    "q", "r", "s", "t", "u", "v", "w", "x", "y", "z">>

CharRank(c) ==
  IF \E i \in 1..Len(Alphabet) : Alphabet[i] = c
  THEN CHOOSE i \in 1..Len(Alphabet) : Alphabet[i] = c
  ELSE 0

\* a.localeCompare(b) < 0
RECURSIVE LexLess(_, _)
LexLess(a, b) ==
  IF b = <<>> THEN FALSE
  ELSE IF a = <<>> THEN TRUE
  ELSE IF CharRank(Head(a)) # CharRank(Head(b)) THEN CharRank(Head(a)) < CharRank(Head(b))
  ELSE LexLess(Tail(a), Tail(b))

localeCompareLess(a, b) == LexLess(toLowerCase(a), toLowerCase(b))

\* ------------------------------------------------------------------ cache.ts

\* a read of a map that throws when the snapshot lacks the map
missingFieldThrows(state, key) == key \notin DOMAIN state

\* state.key?.[id] and state.key || {} do not throw on a map the snapshot lacks
fieldThrows(state, key) == FALSE

\* state.key || {} and state.key?.[...]: a map the snapshot lacks reads as empty
Field(state, key) == IF key \in DOMAIN state THEN state[key] ELSE <<>>

getDocuments(state) == Values(Field(state, "documents"))

\* Array.prototype.filter with the test of getMeetings
meetingsOnly(all) ==
  SelectIdx(all, [i \in 1..Len(all) |-> all[i].type = Meeting /\ ~all[i].was_trashed], 1)

getMeetings(state) == meetingsOnly(getDocuments(state))

getDocumentById(state, id) == Lookup(Field(state, "documents"), id)

getTranscript(state, id) == Lookup(Field(state, "transcripts"), id)

\* the content of the first panel of the document, by the snapshot's key order
getEnhancedNotes(state, id) ==
  LET panels == Lookup(Field(state, "documentPanels"), id)
  IN IF panels = <<>> THEN <<>>
     ELSE IF panels[1] = <<>> THEN <<>>
     ELSE panels[1][1][2].content

Untitled == <<"(", "u", "n", "t", "i", "t", "l", "e", "d", ")">>

\* (lists[f.id] || []).length
noteCountOf(l) == IF l = <<>> THEN 0 ELSE Len(l[1])

\* .filter((f) => f && !f.deleted_at)
liveFolders(meta) == SelectIdx(meta, [i \in 1..Len(meta) |-> meta[i].deleted_at = 0], 1)

\* .map((f) => ({ id, title, noteCount, ... }))
folderRows(live, lists) ==
  [i \in 1..Len(live) |->
     [id |-> live[i].id,
      title |-> OrStr(OrStr(live[i].title, live[i].name), Untitled),
      noteCount |-> noteCountOf(Lookup(lists, live[i].id))]]

\* .sort((a, b) => a.title.localeCompare(b.title))
sortByTitle(rows) ==
  SortStable(rows, [i \in 1..Len(rows) |-> [j \in 1..Len(rows) |->
                      localeCompareLess(rows[i].title, rows[j].title)]])

getFoldersFromCache(state) ==
  sortByTitle(folderRows(liveFolders(Values(Field(state, "documentListsMetadata"))),
                         Field(state, "documentLists")))

\* folders.find((f) => f.id === folderIdOrName || f.title.toLowerCase().includes(...))
findCacheFolder(folders, folderIdOrName) ==
  FindFirst(folders, [i \in 1..Len(folders) |->
    \/ folders[i].id = folderIdOrName
    \/ includes(toLowerCase(folders[i].title), toLowerCase(folderIdOrName))])

\* new Set(lists[target.id] || [])
memberIds(l) == IF l = <<>> THEN {} ELSE {l[1][i] : i \in 1..Len(l[1])}

\* a membership filter that keeps every document
docsInAny(all, docIds) == all

\* .filter((doc) => docIds.has(doc.id))
docsIn(all, docIds) == SelectIdx(all, [i \in 1..Len(all) |-> all[i].id \in docIds], 1)

\* the cache folder lookup's own ordering: by updated_at alone, newest first
folderSortLess(a, b) == getTime(OrDate(a.updated_at, 0)) > getTime(OrDate(b.updated_at, 0))

sortFolderDocs(members) ==
  SortStable(members, [i \in 1..Len(members) |-> [j \in 1..Len(members) |->
                         folderSortLess(members[i], members[j])]])

\* getDocumentsByFolderFromCache once the target folder is found (or not)
docsOfTarget(state, target) ==
  IF target = <<>> THEN <<>>
  ELSE sortFolderDocs(docsIn(getDocuments(state),
                             memberIds(Lookup(Field(state, "documentLists"), target[1].id))))

getDocumentsByFolderFromCache(state, folderIdOrName) ==
  docsOfTarget(state, findCacheFolder(getFoldersFromCache(state), folderIdOrName))

getPeopleFromCache(state) ==
  LET all == Values(Field(state, "people"))
  IN SelectIdx(all, [i \in 1..Len(all) |-> all[i].name # <<>>], 1)

\* ----------------------------------------------------- resolve.ts predicates

\* ListOptions: limit is a nullable number, the strings are empty when not given
ListOptions(limit, folder, attendee, since, until, query) ==
  [limit |-> limit, folder |-> folder, attendee |-> attendee, since |-> since,
   until |-> until, query |-> query]

\* the first date the record carries, 0 when it carries none
dateOf(doc) ==
  OrDate(OrDate(doc.created_at, doc.updated_at),
         IF doc.google_calendar_event = <<>> THEN 0 ELSE doc.google_calendar_event[1].start)

\* a date filter that removes the records without a date when a bound is given
matchesDateOrUndated(doc, since, until) ==
  /\ (since = 0 \/ getTime(since) = NaN \/ (dateOf(doc) # 0 /\ dateOf(doc) >= since))
  /\ (until = 0 \/ getTime(until) = NaN \/ (dateOf(doc) # 0 /\ dateOf(doc) <= until))

matchesDate(doc, since, until) ==
  LET cal == doc.google_calendar_event
      dateStr == OrDate(OrDate(doc.created_at, doc.updated_at),
                        IF cal = <<>> THEN 0 ELSE cal[1].start)
      time == getTime(dateStr)
      s == getTime(since)
      u == getTime(until)
  IN IF dateStr = 0 THEN TRUE
     ELSE IF since # 0 /\ s # NaN /\ time # NaN /\ time < s THEN FALSE
     ELSE IF until # 0 /\ u # NaN /\ time # NaN /\ time > u THEN FALSE
     ELSE TRUE

matchesAttendee(doc, attendee) ==
  IF attendee = <<>> THEN TRUE
  ELSE LET q == toLowerCase(attendee)
           people == IF doc.people.shape \in {"array", "map"} THEN doc.people.entries ELSE <<>>
           cal == doc.google_calendar_event
           attendeeList == IF cal = <<>> THEN <<>> ELSE cal[1].attendees
       IN \/ \E i \in 1..Len(people) :
               \/ people[i].name # <<>> /\ includes(toLowerCase(people[i].name), q)
               \/ people[i].email # <<>> /\ includes(toLowerCase(people[i].email), q)
          \/ \E i \in 1..Len(attendeeList) :
               \/ includes(toLowerCase(attendeeList[i].displayName), q)
               \/ includes(toLowerCase(attendeeList[i].email), q)

matchesQuery(doc, query) ==
  IF query = <<>> THEN TRUE
  ELSE LET q == toLowerCase(query)
           title == toLowerCase(doc.title)
           notes == toLowerCase(OrStr(doc.notes_markdown, doc.notes_plain))
       IN includes(title, q) \/ includes(notes, q)

\* the recency timestamp sortByUpdated compares
recency(d) == getTime(OrDate(OrDate(d.updated_at, d.created_at), 0))

\* sortByUpdated(a, b) < 0
sortByUpdated(a, b) == recency(b) - recency(a) < 0

DefaultLimit == 20

\* options.limit ?? 20
limitOf(options) == IF options.limit = <<>> THEN DefaultLimit ELSE options.limit[1]

\* docs.sort(sortByUpdated)
sortDocs(docs) ==
  SortStable(docs, [i \in 1..Len(docs) |-> [j \in 1..Len(docs) |->
                      sortByUpdated(docs[i], docs[j])]])

\* a listing that sorts and does not truncate
sortWithoutSlice(docs, limit) == sortDocs(docs)

\* docs.sort(sortByUpdated).slice(0, limit)
sortAndSlice(docs, limit) == slice0(sortDocs(docs), limit)

\* the three filters listFromCache applies
filterCached(docs, options) ==
  SelectIdx(docs, [i \in 1..Len(docs) |->
    /\ matchesDate(docs[i], options.since, options.until)
    /\ matchesAttendee(docs[i], options.attendee)
    /\ matchesQuery(docs[i], options.query)], 1)

listFromCache(state, options) ==
  sortAndSlice(filterCached(IF options.folder # <<>>
                            THEN getDocumentsByFolderFromCache(state, options.folder)
                            ELSE getMeetings(state),
                            options),
               limitOf(options))

\* ------------------------------------------------------ output.ts, format.ts

NoSummary == <<"(", "N", "o", " ", "s", "u", "m", "m", "a", "r", "y", ")">>
NoTranscript == <<"(", "N", "o", " ", "t", "r", "a", "n", "s", "c", "r", "i", "p", "t", ")">>

\* proseMirrorToMarkdown on a text leaf (a string node) or a missing node
proseMirrorToMarkdown(node) == node

formatEnhancedMarkdown(content) == OrStr(trim(proseMirrorToMarkdown(content)), NoSummary)

segmentLine(seg) ==
  LET speaker == IF seg.speaker # <<>> THEN seg.speaker
                 ELSE IF seg.source = Microphone THEN <<"Y", "o", "u">>
                 ELSE IF seg.source = System THEN <<"T", "h", "e", "m">>
                 ELSE <<"S", "p", "e", "a", "k", "e", "r">>
      ts == IF seg.start_timestamp # <<>>
            THEN <<"[">> \o seg.start_timestamp \o <<"]", " ">> ELSE <<>>
  IN ts \o speaker \o <<":", " ">> \o seg.text

RECURSIVE JoinLines(_)
JoinLines(lines) ==
  IF lines = <<>> THEN <<>>
  ELSE IF Len(lines) = 1 THEN lines[1]
  ELSE lines[1] \o <<"\n">> \o JoinLines(Tail(lines))

\* formatTranscriptMarkdown(segments, { timestamps: true })
formatTranscriptMarkdownOutput(segments) ==
  JoinLines([i \in 1..Len(segments) |-> segmentLine(segments[i])])

\* doc.notes_markdown || doc.notes_plain || null
notesOf(d) == OrStr(d.notes_markdown, d.notes_plain)

\* -------------------------------------------------------- resolve.ts lookups

resolveMeetingIdFromList(docs, query) ==
  IF query = <<>> THEN <<>>
  ELSE LET byId == FindFirst(docs, [i \in 1..Len(docs) |->
                     docs[i].id = query \/ startsWith(docs[i].id, query)])
           lower == toLowerCase(query)
           byTitle == FindFirst(docs, [i \in 1..Len(docs) |->
                        includes(toLowerCase(docs[i].title), lower)])
       IN IF byId # <<>> THEN <<byId[1].id>>
          ELSE IF byTitle # <<>> THEN <<byTitle[1].id>>
          ELSE <<>>

\* the folder a name designates among the service's lists, as a nullable
findRemoteFolder(lists, folderIdOrName) ==
  FindFirst(lists, [i \in 1..Len(lists) |->
    \/ lists[i].id = folderIdOrName
    \/ includes(toLowerCase(OrStr(lists[i].title, lists[i].name)), toLowerCase(folderIdOrName))])

\* target.document_ids || target.documents?.map((d) => d.id) || []
\* (an array, even an empty one, is truthy)
folderDocIds(target) ==
  LET ids == IF target.has_document_ids THEN target.document_ids ELSE target.documents
  IN {ids[i] : i \in 1..Len(ids)}

\* resolveFolderDocIdsApi, given the answer of getDocumentLists: a nullable set
resolveFolderDocIdsApi(lists, folderIdOrName) ==
  LET target == findRemoteFolder(lists, folderIdOrName)
  IN IF target = <<>> THEN <<>> ELSE <<folderDocIds(target[1])>>

\* the five filters listFromApi applies to one page
filterPage(docs, options, folderIds) ==
  SelectIdx(docs, [i \in 1..Len(docs) |->
    /\ docs[i].type = Meeting /\ ~docs[i].was_trashed
    /\ matchesDate(docs[i], options.since, options.until)
    /\ matchesAttendee(docs[i], options.attendee)
    /\ matchesQuery(docs[i], options.query)
    /\ (folderIds = <<>> \/ docs[i].id \in folderIds[1])], 1)

\* ------------------------------------------------------------- the machine

VARIABLES
  cmd,        \* the command of this invocation
  flags,      \* the global flags given: --source, --no-network, --output
  largs,      \* the ListOptions built from the list/search command line
  query,      \* the <id|title>, <query> or <id|name> argument
  env,        \* the environment: token file, cache file, the service's page size
  pc,         \* the handler's position
  mode,       \* the source mode once getSourceMode has returned, "none" before
  client,     \* getApiClient returned an ApiClient (TRUE) or null (FALSE)
  lopts,      \* the ListOptions of the running listMeetings / listFromApi call
  cursor,     \* listFromApi: cursor (0 is undefined)
  results,    \* listFromApi: results
  folderIds,  \* listFromApi: folderIds (nullable set)
  fvIds,      \* folder view: docIds of the target folder
  docs,       \* what listMeetings / listFromApi returned
  id,         \* the resolved meeting id
  doc,        \* detail commands: doc (nullable)
  notes,      \* detail commands: notes
  summary,    \* detail commands: enhanced / summary
  transcript, \* detail commands: transcript
  log,        \* the effects so far: token reads, cache loads, requests
  out,        \* what the command handed to the presentation layer
  exitCode,   \* -1 while running, 0 on success, else the exit code
  stderr      \* the message the catch handler printed (nullable)

vars == <<cmd, flags, largs, query, env, pc, mode, client, lopts, cursor, results,
          folderIds, fvIds, docs, id, doc, notes, summary, transcript, log, out, exitCode,
          stderr>>

inputs == <<cmd, flags, largs, query, env>>
listFrame == <<cursor, results, folderIds>>
detail == <<doc, notes, summary, transcript>>

MeetingListCmds == {"meeting list", "meeting search"}
DetailCmds == {"meeting view", "meeting notes", "meeting enhanced", "meeting transcript",
               "meeting export"}
DirectCmds == {"workspace list", "folder list", "folder view", "people list",
               "people search"}
Commands == MeetingListCmds \cup DetailCmds \cup DirectCmds \cup {"sync", "shared"}

\* ------------------------------------------------------------------- bounds

MaxLimit == 2
MaxServerPage == 2

Limits == (-1)..MaxLimit
\* the page sizes of the service: small ones, and one that holds every record
ServerPages == (1..MaxServerPage) \cup {Len(RemoteDocs)}

SourceFlags == {"auto", "api", "cache", "bogus"}
OutputFlags == {"json", "xml"}
FolderArgs == {<<>>, <<"s", "A", "L">>, Id_f1, <<"z">>}
AttendeeArgs == {<<>>, <<"s", "a", "m">>}
SinceArgs == {0, 3, 5, BadDate}
UntilArgs == {0, 4, BadDate}
SearchArgs == {<<"s", "t", "a", "n", "d">>, <<"r", "p">>}
MeetingArgs == {Id_a1, <<"a">>, <<"s", "A", "L">>, <<"R", "E", "T">>, <<"z">>, <<>>}
FolderViewArgs == {Id_f1, <<"o", "p">>, <<"z">>}
PeopleArgs == {<<"S", "A", "M">>}

ResolveLimit == 200
FolderViewLimit == 200
PageRequestLimit == 100
PanelRequestLimit == 200

\* a cursor one record further than the one the response carries
cursorPastNext(response) ==
  IF response.next_cursor = 0 THEN 0 ELSE response.next_cursor + 1

\* cursor = response.next_cursor
nextCursor(response) == response.next_cursor

\* listFromApi as a function of its options and of the page size of the
\* service: the loop, one page request per turn
RECURSIVE apiLoop(_, _, _, _, _)

apiTurn(options, fids, pageSize, res, r) ==
  IF nextCursor(r) = 0 THEN res \o filterPage(r.docs, options, fids)
  ELSE apiLoop(options, fids, pageSize, nextCursor(r),
               res \o filterPage(r.docs, options, fids))

apiLoop(options, fids, pageSize, cur, res) ==
  IF Len(res) < limitOf(options)
  THEN apiTurn(options, fids, pageSize, res,
               ServePage(PageRequestLimit, cur, FALSE, pageSize))
  ELSE res

listFromApi(options, pageSize) ==
  sortAndSlice(apiLoop(options,
                       IF options.folder # <<>>
                       THEN resolveFolderDocIdsApi(RemoteLists, options.folder) ELSE <<>>,
                       pageSize, 0, <<>>),
               limitOf(options))

NoOptions == ListOptions(<<>>, <<>>, <<>>, 0, 0, <<>>)

\* ---------------------------------------------------------- cli.ts helpers

\* program.opts(): the option values by attribute name.  The negatable option
\* --no-network is stored under the attribute "network" (true unless given).
programOpts(f) ==
  [k \in {"source", "network", "output"} |->
     CASE k = "source" -> <<f.source>>
       [] k = "network" -> <<~f.noNetwork>>
       [] k = "output" -> <<f.output>>]

\* opts[key], as a nullable
Opt(opts, key) == IF key \in DOMAIN opts THEN opts[key] ELSE <<>>

\* getOutputFormat does not throw
outputFormatOk(opts) == Opt(opts, "output") \in {<<"json">>, <<"markdown">>}

\* getSourceMode: the mode, or "invalid" when it throws
getSourceMode(opts) ==
  IF Opt(opts, "noNetwork") = <<TRUE>> THEN "cache"
  ELSE LET m == IF Opt(opts, "source") = <<>> THEN "auto" ELSE Opt(opts, "source")[1]
       IN IF m \in {"auto", "api", "cache"} THEN m ELSE "invalid"

\* a handler that never takes its cache branch
neverCacheMode(m) == FALSE

\* a sync that does not test the mode
syncAlwaysAllowed(m) == FALSE

\* a catch block that keeps the metadata fetched so far
catchDocKeeps(d) == d

\* call sites that never, or always, allow the missing client
allowFallbackNever(c, m) == FALSE
allowFallbackAlways(c, m) == TRUE

\* if (mode === 'cache'): listMeetings and the folder, people and workspace
\* handlers go to the cache, getApiClient returns null without reading the token
isCacheMode(m) == m = "cache"

\* sync: if (mode === 'cache') throw new CliError(..., 5)
syncNetworkDisabled(m) == m = "cache"

\* catch { doc = null } of view and export
catchDoc(d) == <<>>

\* the allowFallback argument at the call sites of getApiClient
allowFallback(c, m) == IF c \in DirectCmds \cup {"sync"} THEN FALSE ELSE m = "auto"

Event(op, cur, withPanel, outcome) ==
  [op |-> op, cursor |-> cur, panel |-> withPanel, outcome |-> outcome]

\* ApiClient.post: the outcomes of one request
Outcomes == {"ok", "network error", "http error"}

NoOut == [kind |-> "none", items |-> <<>>, doc |-> <<>>, notes |-> <<>>, summary |-> <<>>,
          transcript |-> <<>>]

\* the action returns: the process ends with the given code, nothing printed
\* on stderr
Exit(code) == pc' = "done" /\ exitCode' = code /\ stderr' = stderr

\* an error message: its fixed text and the value interpolated into it
Message(text, arg) == [text |-> text, arg |-> arg]

\* new CliError(message, exitCode) and new Error(message)
CliError(message, code) == [cli |-> TRUE, message |-> message, exitCode |-> code]
PlainError(message) == [cli |-> FALSE, message |-> message]

\* isCliError(err)
isCliError(err) == err.cli

\* a handler that exits with 1 whatever was thrown
exitCodeAlwaysOne(err) == 1

\* the catch handler of parseAsync: err.exitCode for a CliError, else 1
exitCodeFor(err) == IF isCliError(err) THEN err.exitCode ELSE 1

\* an error reaches the catch handler: its message is printed, the process
\* exits with its code
Throw(err) == pc' = "done" /\ stderr' = <<err.message>> /\ exitCode' = exitCodeFor(err)

\* a not-found error whose message does not name the query
MeetingNotFoundUnnamed(q) == CliError(Message("Meeting not found for: ", <<>>), 4)

\* new CliError(`Meeting not found for: ${query}`, 4)
MeetingNotFound(q) == CliError(Message("Meeting not found for: ", q), 4)

Init ==
  /\ cmd \in Commands
  /\ flags \in [source : SourceFlags, noNetwork : BOOLEAN, output : OutputFlags]
  /\ env \in [tokenOk : BOOLEAN, cacheOk : BOOLEAN, pageSize : ServerPages]
  /\ largs \in
       IF cmd = "meeting list"
         THEN {ListOptions(<<l>>, f, a, s, u, <<>>) :
                 l \in Limits, f \in FolderArgs, a \in AttendeeArgs, s \in SinceArgs, u \in UntilArgs}
       ELSE IF cmd = "meeting search"
         THEN {ListOptions(<<l>>, <<>>, <<>>, 0, 0, q) : l \in Limits, q \in SearchArgs}
       ELSE {NoOptions}
  /\ query \in
       IF cmd \in DetailCmds THEN MeetingArgs
       ELSE IF cmd = "folder view" THEN FolderViewArgs
       ELSE IF cmd = "people search" THEN PeopleArgs
       ELSE {<<>>}
  /\ pc = "start"
  /\ mode = "none"
  /\ client = FALSE
  /\ lopts = NoOptions
  /\ cursor = 0
  /\ results = <<>>
  /\ folderIds = <<>>
  /\ fvIds = {}
  /\ docs = <<>>
  /\ id = <<>>
  /\ doc = <<>>
  /\ notes = <<>>
  /\ summary = <<>>
  /\ transcript = <<>>
  /\ log = <<>>
  /\ out = NoOut
  /\ exitCode = -1
  /\ stderr = <<>>

\* ------------------------------------------------- continuations (pure code)

\* outputList: the end of the list and search actions
outputList(ds) ==
  IF outputFormatOk(programOpts(flags))
  THEN out' = [NoOut EXCEPT !.kind = "list", !.items = ds] /\ Exit(0)
  ELSE out' = out /\ Throw(CliError(Message("Invalid output format: ", <<flags.output>>), 5))

\* what follows listMeetings returning ds: outputList for list and search;
\* for the detail commands the rest of resolveMeetingId and the handler's
\* code up to its getApiClient call (which returns null at once in cache mode)
AfterListMeetings(ds) ==
  /\ docs' = ds
  /\ IF cmd \in MeetingListCmds THEN outputList(ds) /\ id' = id
     ELSE LET r == resolveMeetingIdFromList(ds, query)
          IN IF r = <<>> THEN Throw(MeetingNotFound(query)) /\ id' = id /\ out' = out
             ELSE /\ id' = r[1]
                  /\ out' = out
                  /\ IF cmd # "meeting export" /\ ~outputFormatOk(programOpts(flags))
                     THEN Throw(CliError(Message("Invalid output format: ", <<flags.output>>), 5))
                     ELSE /\ pc' = IF isCacheMode(mode) THEN "d_cache" ELSE "d_client"
                          /\ UNCHANGED <<exitCode, stderr>>

\* what follows listFromApi returning ds
ReturnFromApiList(ds) ==
  IF cmd = "folder view"
  THEN /\ docs' = ds
       /\ id' = id
       /\ out' = [NoOut EXCEPT !.kind = "list",
                    !.items = SelectIdx(ds, [i \in 1..Len(ds) |-> ds[i].id \in fvIds], 1)]
       /\ Exit(0)
  ELSE AfterListMeetings(ds)

\* a loop that asks for the next page whatever it has accumulated
LoopWithoutTest(res) ==
  /\ results' = res
  /\ pc' = "lf_page" /\ UNCHANGED <<exitCode, stderr, out, docs, id>>

\* listFromApi at the test of its while loop, res accumulated so far
LoopTest(res) ==
  /\ results' = res
  /\ IF Len(res) < limitOf(lopts)
     THEN pc' = "lf_page" /\ UNCHANGED <<exitCode, stderr, out, docs, id>>
     ELSE ReturnFromApiList(sortAndSlice(res, limitOf(lopts)))

\* listFromApi threw: listMeetings rethrows in api mode and turns to the cache
\* in auto mode; folder view calls listFromApi directly
ApiListFailed(o) ==
  /\ UNCHANGED <<out, docs, id>>
  /\ IF cmd = "folder view" \/ mode = "api" THEN Throw(
      PlainError(Message("API error or fetch failure: ", <<o>>)))
     ELSE pc' = "lm_cache" /\ UNCHANGED <<exitCode, stderr>>

\* if (!doc.id) doc = { ...doc, id }
withId(d, i) == IF d.id = <<>> THEN [d EXCEPT !.id = i] ELSE d

viewOut(d, n, s) == [NoOut EXCEPT !.kind = "view", !.doc = d, !.notes = n, !.summary = s]
exportOut(d, i, s, t) ==
  [NoOut EXCEPT !.kind = "export", !.doc = <<withId(d[1], i)>>,
                !.summary = OrStr(s, NoSummary), !.transcript = OrStr(t, NoTranscript)]

\* view after its try block: if (!doc) the cache branch, else the output
FinishView(d, n, s) ==
  IF d = <<>> THEN pc' = "d_cache" /\ UNCHANGED <<out, exitCode, stderr>>
  ELSE out' = viewOut(d, n, s) /\ Exit(0)

\* export after its try block
FinishExport(d, s, t) ==
  IF d = <<>> THEN pc' = "d_cache" /\ UNCHANGED <<out, exitCode, stderr>>
  ELSE out' = exportOut(d, id, s, t) /\ Exit(0)

\* the output of a notes, enhanced or transcript command
singleOut(kind, v) ==
  [NoOut EXCEPT !.kind = kind,
                !.notes = IF kind = "notes" THEN v ELSE <<>>,
                !.summary = IF kind = "enhanced" THEN v ELSE <<>>,
                !.transcript = IF kind = "transcript" THEN v ELSE <<>>]

\* notes, enhanced, transcript after their try block: if (!value) the cache
\* branch, else the output
FinishSingle(kind, v) ==
  IF v = <<>> THEN pc' = "d_cache" /\ UNCHANGED <<out, exitCode, stderr>>
  ELSE out' = singleOut(kind, v) /\ Exit(0)

\* a normalisation that takes only the bare array
transcriptOfArrayOnly(body) == IF body.shape = "array" THEN body.segs ELSE <<>>

\* ApiClient.getDocumentTranscript: the segments of a response body
transcriptOf(body) ==
  IF body.shape = "array" THEN body.segs
  ELSE IF body.shape = "wrapped" THEN body.segs
  ELSE <<>>

\* the summary a panel listing yields for the meeting, cur when it has none
panelSummary(listing, i, cur) ==
  LET match == FindFirst(listing, [k \in 1..Len(listing) |-> listing[k].id = i])
  IN IF match # <<>> /\ match[1].last_viewed_panel # <<>>
     THEN formatEnhancedMarkdown(match[1].last_viewed_panel)
     ELSE cur

\* ------------------------------------------------------------------ actions

\* the handler up to its first effect
Begin ==
  /\ pc = "start"
  /\ LET o == programOpts(flags)
         m == getSourceMode(o)
     IN \/ /\ cmd \in MeetingListCmds \cup DetailCmds
           /\ lopts' = IF cmd \in MeetingListCmds THEN largs
                       ELSE [NoOptions EXCEPT !.limit = <<ResolveLimit>>]
           /\ IF m = "invalid" THEN Throw(
               CliError(Message("Invalid source mode: ", <<flags.source>>), 5)) /\ mode' = mode
              ELSE /\ mode' = m
                   /\ pc' = IF isCacheMode(m) THEN "lm_cache" ELSE "lm_client"
                   /\ UNCHANGED <<exitCode, stderr>>
        \/ /\ cmd \in DirectCmds
           /\ lopts' = IF cmd = "folder view"
                       THEN [NoOptions EXCEPT !.limit = <<FolderViewLimit>>] ELSE lopts
           /\ IF ~outputFormatOk(o)
                THEN Throw(
                    CliError(Message("Invalid output format: ", <<flags.output>>), 5)) /\ mode' = mode
              ELSE IF m = "invalid"
                THEN Throw(
                    CliError(Message("Invalid source mode: ", <<flags.source>>), 5)) /\ mode' = mode
              ELSE /\ mode' = m
                   /\ pc' = IF isCacheMode(m) THEN "x_cache" ELSE "x_client"
                   /\ UNCHANGED <<exitCode, stderr>>
        \/ /\ cmd = "sync"
           /\ lopts' = lopts
           /\ IF m = "invalid" THEN Throw(
               CliError(Message("Invalid source mode: ", <<flags.source>>), 5)) /\ mode' = mode
              ELSE /\ mode' = m
                   /\ IF syncNetworkDisabled(m) THEN Throw(
                       CliError(Message("Network disabled. Use --source api to sync.", <<>>), 5))
                      ELSE pc' = "x_client" /\ UNCHANGED <<exitCode, stderr>>
        \/ /\ cmd = "shared"
           /\ lopts' = lopts
           /\ mode' = mode
           /\ IF ~outputFormatOk(o) THEN Throw(
               CliError(Message("Invalid output format: ", <<flags.output>>), 5))
              ELSE pc' = "x_cache" /\ UNCHANGED <<exitCode, stderr>>
  /\ UNCHANGED <<inputs, client, listFrame, fvIds, docs, id, detail, log, out>>

\* the first request of a detail command
firstRequest(c) ==
  CASE c \in {"meeting view", "meeting notes", "meeting export"} -> "d_meta"
    [] c = "meeting enhanced" -> "d_panel"
    [] c = "meeting transcript" -> "d_transcript"

\* getApiClient outside cache mode: extractAccessToken, then the client, null
\* or the authentication error
GetApiClient ==
  /\ pc \in {"lm_client", "d_client", "x_client"}
  /\ log' = Append(log, Event("token", 0, FALSE, IF env.tokenOk THEN "ok" ELSE "error"))
  /\ client' = env.tokenOk
  /\ IF env.tokenOk
     THEN CASE pc = "lm_client" ->
                 /\ cursor' = 0
                 /\ folderIds' = <<>>
                 /\ IF lopts.folder # <<>>
                    THEN /\ pc' = "lf_folder"
                         /\ results' = <<>>
                         /\ UNCHANGED <<exitCode, stderr, out, docs, id>>
                    ELSE LoopTest(<<>>)
            [] pc = "d_client" ->
                 /\ pc' = firstRequest(cmd)
                 /\ UNCHANGED <<listFrame, exitCode, stderr, out, docs, id>>
            [] pc = "x_client" ->
                 /\ pc' = "x_request"
                 /\ UNCHANGED <<listFrame, exitCode, stderr, out, docs, id>>
     ELSE /\ UNCHANGED <<listFrame, out, docs, id>>
          /\ IF allowFallback(cmd, mode)
             THEN /\ pc' = IF pc = "lm_client" THEN "lm_cache" ELSE "d_cache"
                  /\ UNCHANGED <<exitCode, stderr>>
             ELSE Throw(
                 CliError(Message("Authentication required. Could not read Granola token.", <<>>), 2))
  /\ UNCHANGED <<inputs, mode, lopts, fvIds, detail>>

\* listFromApi: the folder lookup
ApiGetDocumentLists ==
  /\ pc = "lf_folder"
  /\ \E o \in Outcomes :
       /\ log' = Append(log, Event("getDocumentLists", 0, FALSE, o))
       /\ IF o = "ok"
          THEN /\ folderIds' = resolveFolderDocIdsApi(RemoteLists, lopts.folder)
               /\ LoopTest(results)
          ELSE folderIds' = folderIds /\ results' = results /\ ApiListFailed(o)
  /\ UNCHANGED <<inputs, mode, client, lopts, cursor, fvIds, detail>>

\* listFromApi: one page request and the rest of the loop body
ApiGetDocuments ==
  /\ pc = "lf_page"
  /\ \E o \in Outcomes :
       /\ log' = Append(log, Event("getDocuments", cursor, FALSE, o))
       /\ IF o = "ok"
          THEN \E r \in {ServePage(PageRequestLimit, cursor, FALSE, env.pageSize)} :
               \E res \in {results \o filterPage(r.docs, lopts, folderIds)} :
                  /\ cursor' = nextCursor(r)
                  /\ IF nextCursor(r) = 0
                     THEN /\ results' = res
                          /\ ReturnFromApiList(sortAndSlice(res, limitOf(lopts)))
                     ELSE LoopTest(res)
          ELSE cursor' = cursor /\ results' = results /\ ApiListFailed(o)
  /\ UNCHANGED <<inputs, mode, client, lopts, folderIds, fvIds, detail>>

\* panel ? formatEnhancedMarkdown(panel) : null
cacheSummary(panel) == IF panel # <<>> THEN formatEnhancedMarkdown(panel) ELSE <<>>

\* segments ? formatTranscriptMarkdownOutput(segments) : null
cacheTranscript(segments) ==
  IF segments # <<>> THEN formatTranscriptMarkdownOutput(segments[1]) ELSE <<>>

\* the cache branch of a detail command, on the loaded snapshot
DetailFromCache(state) ==
  CASE cmd = "meeting view" ->
         IF getDocumentById(state, id) = <<>> THEN Throw(
             MeetingNotFound(query)) /\ UNCHANGED <<detail, out>>
         ELSE /\ doc' = getDocumentById(state, id)
              /\ notes' = notesOf(getDocumentById(state, id)[1])
              /\ summary' = cacheSummary(getEnhancedNotes(state, id))
              /\ transcript' = transcript
              /\ out' = viewOut(getDocumentById(state, id), notesOf(getDocumentById(state, id)[1]),
                                cacheSummary(getEnhancedNotes(state, id)))
              /\ Exit(0)
    [] cmd = "meeting notes" ->
         IF getDocumentById(state, id) = <<>> THEN Throw(
             MeetingNotFound(query)) /\ UNCHANGED <<detail, out>>
         ELSE /\ notes' = notesOf(getDocumentById(state, id)[1])
              /\ UNCHANGED <<doc, summary, transcript>>
              /\ out' = singleOut("notes", notesOf(getDocumentById(state, id)[1]))
              /\ Exit(0)
    [] cmd = "meeting enhanced" ->
         /\ summary' = OrStr(cacheSummary(getEnhancedNotes(state, id)), summary)
         /\ UNCHANGED <<doc, notes, transcript>>
         /\ IF OrStr(cacheSummary(getEnhancedNotes(state, id)), summary) = <<>>
            THEN Throw(CliError(Message("No summary available for: ", query), 4)) /\ out' = out
            ELSE /\ out' = singleOut("enhanced",
                                     OrStr(cacheSummary(getEnhancedNotes(state, id)), summary))
                 /\ Exit(0)
    [] cmd = "meeting transcript" ->
         IF getTranscript(state, id) = <<>> THEN Throw(
             CliError(Message("No transcript available for: ", query), 4)) /\ UNCHANGED <<detail, out>>
         ELSE /\ transcript' = cacheTranscript(getTranscript(state, id))
              /\ UNCHANGED <<doc, notes, summary>>
              /\ out' = singleOut("transcript", cacheTranscript(getTranscript(state, id)))
              /\ Exit(0)
    [] cmd = "meeting export" ->
         IF getDocumentById(state, id) = <<>> THEN Throw(
             MeetingNotFound(query)) /\ UNCHANGED <<detail, out>>
         ELSE /\ doc' = <<withId(getDocumentById(state, id)[1], id)>>
              /\ notes' = notes
              /\ summary' = cacheSummary(getEnhancedNotes(state, id))
              /\ transcript' = cacheTranscript(getTranscript(state, id))
              /\ out' = exportOut(getDocumentById(state, id), id,
                                  cacheSummary(getEnhancedNotes(state, id)),
                                  cacheTranscript(getTranscript(state, id)))
              /\ Exit(0)

\* people search: the entries whose name or email contains the query
peopleMatching(list, q) ==
  SelectIdx(list, [i \in 1..Len(list) |->
    \/ includes(toLowerCase(list[i].name), toLowerCase(q))
    \/ includes(toLowerCase(list[i].email), toLowerCase(q))], 1)

getSharedDocumentsFromCache(state) ==
  LET all == Values(Field(state, "sharedDocuments"))
  IN SelectIdx(all, [i \in 1..Len(all) |-> all[i].id # <<>>], 1)

\* the cache branch of the folder, people, workspace and shared commands
DirectFromCache(state) ==
  LET items == CASE cmd = "workspace list" -> Field(state, "workspaces")
                 [] cmd = "folder list" -> getFoldersFromCache(state)
                 [] cmd = "folder view" -> getDocumentsByFolderFromCache(state, query)
                 [] cmd = "people list" -> getPeopleFromCache(state)
                 [] cmd = "people search" -> peopleMatching(getPeopleFromCache(state), query)
                 [] cmd = "shared" -> getSharedDocumentsFromCache(state)
  IN IF cmd = "folder view" /\ Len(items) = 0 THEN Throw(
      CliError(Message("Folder not found: ", query), 4)) /\ out' = out
     ELSE out' = [NoOut EXCEPT !.kind = "list", !.items = items] /\ Exit(0)

\* the state {}: a snapshot with no map at all
EmptyState == <<>>

\* a load that substitutes the empty state for a file it cannot read
loadCacheStateOrEmpty(e) == IF e.cacheOk THEN <<CacheFile>> ELSE <<EmptyState>>

\* loadCacheState(): the parsed state, or nothing when it throws (the file is
\* absent or cannot be read or parsed)
loadCacheState(e) == IF e.cacheOk THEN <<CacheFile>> ELSE <<>>

\* the code that uses the snapshot, by the place of the call
WithSnapshot(state) ==
  CASE pc = "lm_cache" -> AfterListMeetings(listFromCache(state, lopts)) /\ UNCHANGED detail
    [] pc = "d_cache" -> DetailFromCache(state) /\ UNCHANGED <<docs, id>>
    [] pc = "x_cache" -> DirectFromCache(state) /\ UNCHANGED <<docs, id, detail>>

\* loadCacheState and the code that uses the snapshot
LoadCacheState ==
  /\ pc \in {"lm_cache", "d_cache", "x_cache"}
  /\ log' = Append(log, Event("cache", 0, FALSE, IF env.cacheOk THEN "ok" ELSE "error"))
  /\ IF loadCacheState(env) = <<>>
     THEN /\ Throw(PlainError(Message("Granola cache not found at ", <<>>)))
          /\ UNCHANGED <<docs, id, detail, out>>
     ELSE WithSnapshot(loadCacheState(env)[1])
  /\ UNCHANGED <<inputs, mode, client, lopts, listFrame, fvIds>>

\* client.getDocumentMetadata(id) and the code up to the next effect
ApiGetDocumentMetadata ==
  /\ pc = "d_meta"
  /\ \E o \in Outcomes :
       /\ o = "ok" => RemoteMetadata(id) # <<>>
       /\ log' = Append(log, Event("getDocumentMetadata", 0, FALSE, o))
       /\ CASE cmd = "meeting view" ->
                 IF o = "ok"
                 THEN /\ doc' = RemoteMetadata(id)
                      /\ notes' = notesOf(RemoteMetadata(id)[1])
                      /\ pc' = "d_panel"
                      /\ UNCHANGED <<summary, transcript, out, exitCode, stderr>>
                 ELSE /\ doc' = catchDoc(doc)
                      /\ UNCHANGED <<notes, summary, transcript>>
                      /\ FinishView(catchDoc(doc), notes, summary)
            [] cmd = "meeting export" ->
                 IF o = "ok"
                 THEN /\ doc' = RemoteMetadata(id)
                      /\ pc' = "d_panel"
                      /\ UNCHANGED <<notes, summary, transcript, out, exitCode, stderr>>
                 ELSE /\ doc' = catchDoc(doc)
                      /\ UNCHANGED <<notes, summary, transcript>>
                      /\ FinishExport(catchDoc(doc), summary, transcript)
            [] cmd = "meeting notes" ->
                 /\ notes' = IF o = "ok" THEN notesOf(RemoteMetadata(id)[1]) ELSE <<>>
                 /\ UNCHANGED <<doc, summary, transcript>>
                 /\ FinishSingle("notes", IF o = "ok" THEN notesOf(RemoteMetadata(id)[1]) ELSE <<>>)
  /\ UNCHANGED <<inputs, mode, client, lopts, listFrame, fvIds, docs, id>>

\* the first page of the listing with panels
panelListing == ServePage(PanelRequestLimit, 0, TRUE, env.pageSize).docs

\* client.getDocuments({ limit: 200, include_last_viewed_panel: true }) and the
\* code up to the next effect
ApiGetPanelListing ==
  /\ pc = "d_panel"
  /\ \E o \in Outcomes :
       /\ log' = Append(log, Event("getDocuments", 0, TRUE, o))
       /\ CASE cmd = "meeting view" ->
                 IF o = "ok"
                 THEN /\ summary' = panelSummary(panelListing, id, summary)
                      /\ UNCHANGED <<doc, notes, transcript>>
                      /\ FinishView(doc, notes, panelSummary(panelListing, id, summary))
                 ELSE /\ doc' = catchDoc(doc)
                      /\ UNCHANGED <<notes, summary, transcript>>
                      /\ FinishView(catchDoc(doc), notes, summary)
            [] cmd = "meeting export" ->
                 IF o = "ok"
                 THEN /\ summary' = panelSummary(panelListing, id, summary)
                      /\ pc' = "d_transcript"
                      /\ UNCHANGED <<doc, notes, transcript, out, exitCode, stderr>>
                 ELSE /\ doc' = catchDoc(doc)
                      /\ UNCHANGED <<notes, summary, transcript>>
                      /\ FinishExport(catchDoc(doc), summary, transcript)
            [] cmd = "meeting enhanced" ->
                 /\ summary' = IF o = "ok" THEN panelSummary(panelListing, id, summary) ELSE <<>>
                 /\ UNCHANGED <<doc, notes, transcript>>
                 /\ FinishSingle("enhanced",
                                 IF o = "ok" THEN panelSummary(panelListing, id, summary) ELSE <<>>)
  /\ UNCHANGED <<inputs, mode, client, lopts, listFrame, fvIds, docs, id>>

\* the transcript a successful transcript request yields, formatted
remoteTranscript(i) == formatTranscriptMarkdownOutput(transcriptOf(RemoteTranscriptBody(i)))

\* client.getDocumentTranscript(id) and the code up to the next effect
ApiGetDocumentTranscript ==
  /\ pc = "d_transcript"
  /\ \E o \in Outcomes :
       /\ log' = Append(log, Event("getDocumentTranscript", 0, FALSE, o))
       /\ CASE cmd = "meeting export" ->
                 IF o = "ok"
                 THEN /\ transcript' = remoteTranscript(id)
                      /\ UNCHANGED <<doc, notes, summary>>
                      /\ FinishExport(doc, summary, remoteTranscript(id))
                 ELSE /\ doc' = catchDoc(doc)
                      /\ UNCHANGED <<notes, summary, transcript>>
                      /\ FinishExport(catchDoc(doc), summary, transcript)
            [] cmd = "meeting transcript" ->
                 /\ transcript' = IF o = "ok" THEN remoteTranscript(id) ELSE <<>>
                 /\ UNCHANGED <<doc, notes, summary>>
                 /\ FinishSingle("transcript", IF o = "ok" THEN remoteTranscript(id) ELSE <<>>)
  /\ UNCHANGED <<inputs, mode, client, lopts, listFrame, fvIds, docs, id>>

\* the request of a folder, people, workspace or sync command
requestOf(c) ==
  CASE c = "workspace list" -> "getWorkspaces"
    [] c \in {"folder list", "folder view"} -> "getDocumentLists"
    [] c \in {"people list", "people search"} -> "getPeople"
    [] c = "sync" -> "refreshGoogleEvents"

\* the remote branch of the folder, people, workspace and sync commands: the
\* request, whose failure propagates, and the code up to the next effect
DirectRequest ==
  /\ pc = "x_request"
  /\ \E o \in Outcomes :
       /\ log' = Append(log, Event(requestOf(cmd), 0, FALSE, o))
       /\ IF o # "ok"
          THEN Throw(
              PlainError(Message("API error or fetch failure: ", <<o>>))) /\ UNCHANGED <<listFrame, fvIds, docs, id, out>>
          ELSE IF cmd = "folder view"
          THEN LET target == findRemoteFolder(RemoteLists, query)
               IN IF target = <<>>
                  THEN Throw(
                      CliError(Message("Folder not found: ", query), 4)) /\ UNCHANGED <<listFrame, fvIds, docs, id, out>>
                  ELSE /\ fvIds' = folderDocIds(target[1])
                       /\ cursor' = 0
                       /\ folderIds' = <<>>
                       /\ results' = <<>>
                       /\ pc' = "lf_page"
                       /\ UNCHANGED <<exitCode, stderr, docs, id, out>>
          ELSE /\ out' = [NoOut EXCEPT
                            !.kind = IF cmd = "sync" THEN "sync" ELSE "list",
                            !.items = CASE cmd = "workspace list" -> RemoteWorkspaces
                                        [] cmd = "folder list" -> RemoteLists
                                        [] cmd = "people list" -> RemotePeople
                                        [] cmd = "people search" -> peopleMatching(RemotePeople, query)
                                        [] cmd = "sync" -> <<>>]
               /\ Exit(0)
               /\ UNCHANGED <<listFrame, fvIds, docs, id>>
  /\ UNCHANGED <<inputs, mode, client, lopts, detail>>

Next ==
  \/ Begin
  \/ GetApiClient
  \/ LoadCacheState
  \/ ApiGetDocumentLists
  \/ ApiGetDocuments
  \/ ApiGetDocumentMetadata
  \/ ApiGetPanelListing
  \/ ApiGetDocumentTranscript
  \/ DirectRequest

Spec == Init /\ [][Next]_vars

\* ------------------------------------------------------------- properties

Done == pc = "done"

\* the positions of the log that are requests to the service
RequestEvents == {i \in 1..Len(log) : log[i].op \notin {"token", "cache"}}
TokenEvents == {i \in 1..Len(log) : log[i].op = "token"}
CacheEvents == {i \in 1..Len(log) : log[i].op = "cache"}

\* some operation on the remote side (token read or request) has failed
RemoteFailed == \E i \in 1..Len(log) : log[i].op # "cache" /\ log[i].outcome # "ok"

\* the remote fails whenever it is used: the token is unreadable, or it is
\* readable and every request the command issues fails
RemoteAlwaysFails == \A i \in RequestEvents : log[i].outcome # "ok"

MetadataEvents == {i \in 1..Len(log) : log[i].op = "getDocumentMetadata"}
SubordinateEvents ==
  {i \in 1..Len(log) : \/ log[i].op = "getDocumentTranscript"
                        \/ (log[i].op = "getDocuments" /\ log[i].panel)}

\* meeting list has run to its end in auto mode against a remote that always
\* fails, with a readable snapshot and a valid --output
AutoListRemoteDown ==
  /\ cmd = "meeting list" /\ mode = "auto" /\ Done
  /\ RemoteAlwaysFails /\ env.cacheOk /\ outputFormatOk(programOpts(flags))

\* C1 as stated: in auto mode, for every set of list options, with a remote
\* that fails whenever it is used, meeting list returns exactly listFromCache
\* of the loaded snapshot for the same options
C1_AutoListEqualsCacheList ==
  AutoListRemoteDown
  => /\ exitCode = 0
     /\ out.items = listFromCache(CacheFile, largs)

\* C1: in auto mode, for every set of list options whose limit is absent or
\* not negative, with a remote that fails whenever it is used, meeting list
\* returns exactly listFromCache of the loaded snapshot for the same options
C1_AutoListEqualsCacheListForNaturalLimit ==
  (AutoListRemoteDown /\ limitOf(largs) >= 0)
  => /\ exitCode = 0
     /\ out.items = listFromCache(CacheFile, largs)

C1_Witness ==
  /\ AutoListRemoteDown /\ limitOf(largs) = 1
  /\ \E i \in RequestEvents : log[i].outcome = "http error"
  /\ CacheEvents # {}
  /\ Len(out.items) = 1 /\ out.items = listFromCache(CacheFile, largs)

\* C2: in api mode only the remote is consulted: the snapshot is never loaded
\* and a remote failure ends the command with an error
C2_ApiModeNeverUsesCache ==
  mode = "api" =>
    /\ CacheEvents = {}
    /\ ((Done /\ RemoteFailed) => (exitCode # 0 /\ out = NoOut))

\* the answer of a command when it is computed from the snapshot alone
CacheAnswer ==
  CASE cmd \in MeetingListCmds ->
         [NoOut EXCEPT !.kind = "list", !.items = listFromCache(CacheFile, largs)]
    [] cmd = "meeting view" ->
         viewOut(getDocumentById(CacheFile, id), notesOf(getDocumentById(CacheFile, id)[1]),
                 cacheSummary(getEnhancedNotes(CacheFile, id)))
    [] cmd = "meeting export" ->
         exportOut(getDocumentById(CacheFile, id), id,
                   cacheSummary(getEnhancedNotes(CacheFile, id)),
                   cacheTranscript(getTranscript(CacheFile, id)))
    [] cmd = "meeting notes" -> singleOut("notes", notesOf(getDocumentById(CacheFile, id)[1]))
    [] cmd = "meeting enhanced" ->
         singleOut("enhanced", cacheSummary(getEnhancedNotes(CacheFile, id)))
    [] cmd = "meeting transcript" ->
         singleOut("transcript", cacheTranscript(getTranscript(CacheFile, id)))
    [] cmd = "workspace list" -> [NoOut EXCEPT !.kind = "list", !.items = CacheFile.workspaces]
    [] cmd = "folder list" ->
         [NoOut EXCEPT !.kind = "list", !.items = getFoldersFromCache(CacheFile)]
    [] cmd = "folder view" ->
         [NoOut EXCEPT !.kind = "list",
                       !.items = getDocumentsByFolderFromCache(CacheFile, query)]
    [] cmd = "people list" ->
         [NoOut EXCEPT !.kind = "list", !.items = getPeopleFromCache(CacheFile)]
    [] cmd = "people search" ->
         [NoOut EXCEPT !.kind = "list",
                       !.items = peopleMatching(getPeopleFromCache(CacheFile), query)]
    [] OTHER -> NoOut

\* C3: in cache mode no command reads the token or issues a request, and every
\* meeting, folder, people and workspace command that succeeds is answered
\* from the snapshot
C3_CacheModeIsOffline ==
  mode = "cache" =>
    /\ TokenEvents = {}
    /\ RequestEvents = {}
    /\ ((Done /\ exitCode = 0) => (CacheEvents # {} /\ out = CacheAnswer))

C3_Witness ==
  /\ mode = "cache" /\ Done /\ exitCode = 0 /\ cmd = "meeting view"
  /\ Len(log) = 2

\* C4: with the source mode resolved to cache, sync ends with exit code 5
\* without any token read, request or cache load
C4_SyncFailsFastInCacheMode ==
  (cmd = "sync" /\ mode = "cache") => (Done /\ exitCode = 5 /\ log = <<>>)

C4_Witness == cmd = "sync" /\ mode = "cache" /\ Done /\ flags.source = "cache"

\* C5: with --no-network given the resolved mode is cache whatever --source
\* says, and no request is issued
C5_NoNetworkForcesCache ==
  flags.noNetwork => (mode \in {"none", "cache"} /\ RequestEvents = {})

\* C6: in api mode with an unreadable token the command ends with exit code 2,
\* having loaded no snapshot and issued no request
C6_ApiModeAuthError ==
  (mode = "api" /\ ~env.tokenOk) =>
    /\ CacheEvents = {}
    /\ RequestEvents = {}
    /\ (Done => exitCode = 2)

C6_Witness ==
  /\ mode = "api" /\ ~env.tokenOk /\ Done /\ exitCode = 2
  /\ cmd = "folder view" /\ Len(log) = 1

\* C7: in auto mode folder list, folder view, people list, people search and
\* workspace list answer from the cache when the remote fails
C7_DirectCommandsFallBack ==
  (/\ cmd \in DirectCmds /\ mode = "auto" /\ Done /\ RemoteFailed /\ env.cacheOk)
  => /\ exitCode \in {0, 4}
     /\ (exitCode = 0 => out = CacheAnswer)

\* the answer of view and export when every piece comes from the remote
RemoteAnswer ==
  CASE cmd = "meeting view" ->
         viewOut(RemoteMetadata(id), notesOf(RemoteMetadata(id)[1]),
                 panelSummary(panelListing, id, <<>>))
    [] cmd = "meeting export" ->
         exportOut(RemoteMetadata(id), id, panelSummary(panelListing, id, <<>>),
                   remoteTranscript(id))
    [] OTHER -> NoOut

MetadataFailed == \E i \in MetadataEvents : log[i].outcome # "ok"
MetadataOk == \E i \in MetadataEvents : log[i].outcome = "ok"
SubordinateFailed == \E i \in SubordinateEvents : log[i].outcome # "ok"

\* C8: what view and export show comes entirely from the remote responses or
\* entirely from the snapshot, and it is the snapshot's whenever the metadata
\* request failed
C8_ViewExportAllRemoteOrAllCache ==
  (cmd \in {"meeting view", "meeting export"} /\ Done /\ exitCode = 0) =>
    /\ \/ (RemoteMetadata(id) # <<>> /\ out = RemoteAnswer)
       \/ (getDocumentById(CacheFile, id) # <<>> /\ out = CacheAnswer)
    /\ (MetadataFailed => (getDocumentById(CacheFile, id) # <<>> /\ out = CacheAnswer))

C8_Witness ==
  /\ cmd = "meeting export" /\ Done /\ exitCode = 0
  /\ MetadataFailed /\ CacheEvents # {}
  /\ out.doc # <<>> /\ out.doc[1].id = Id_a1

ListPrinted == cmd \in MeetingListCmds /\ Done /\ exitCode = 0

SortedByRecency(ds) ==
  \A i \in 1..Len(ds) : \A j \in 1..Len(ds) :
    i < j => recency(ds[i]) >= recency(ds[j])

\* C10 as stated: for every integer limit, negative ones and 0 included, the
\* listing is sorted by non-increasing recency and is no longer than the limit
C10_ListSortedAndWithinLimit ==
  ListPrinted => (SortedByRecency(out.items) /\ Len(out.items) <= limitOf(lopts))

\* C10: from either source the listing is sorted by non-increasing recency,
\* and for every limit that is 0 or more it is no longer than the limit
C10_ListSortedAndWithinNaturalLimit ==
  ListPrinted =>
    /\ SortedByRecency(out.items)
    /\ (limitOf(lopts) >= 0 => Len(out.items) <= limitOf(lopts))

C10_Witness ==
  /\ ListPrinted /\ mode = "api" /\ limitOf(lopts) = 2
  /\ Len(out.items) = 2
  /\ out.items[1].id = Id_a1 /\ out.items[2].id = Id_a12
  /\ recency(out.items[1]) > recency(out.items[2])

\* ---------------------------------------------------------------------- C11

liveMeeting(d) == d.type = Meeting /\ ~d.was_trashed

\* C11: a meeting list, whatever the source and the filters (a folder filter
\* included), prints only records that are meetings and are not trashed.
\* Violated: with a folder filter the cache takes the folder's documents from
\* getDocuments, not getMeetings, so a trashed member of the folder is listed.
C11_ListHasOnlyLiveMeetings ==
  ListPrinted => \A i \in 1..Len(out.items) : liveMeeting(out.items[i])

\* ---------------------------------------------------------------------- C13

\* a detail command is past resolveMeetingId: an id was found, or none was
Resolved == cmd \in DetailCmds /\ (id # <<>> \/ (Done /\ exitCode = 4))

idEquals(ds, q) == FindFirst(ds, [i \in 1..Len(ds) |-> ds[i].id = q])
idStartsWith(ds, q) == FindFirst(ds, [i \in 1..Len(ds) |-> startsWith(ds[i].id, q)])
titleIncludes(ds, q) ==
  FindFirst(ds, [i \in 1..Len(ds) |-> includes(toLowerCase(ds[i].title), toLowerCase(q))])

\* the strict priority the contract describes: exact id, then first id
\* prefix, then first title substring
strictPriority(ds, q) ==
  IF q = <<>> THEN <<>>
  ELSE IF idEquals(ds, q) # <<>> THEN <<q>>
  ELSE IF idStartsWith(ds, q) # <<>> THEN <<idStartsWith(ds, q)[1].id>>
  ELSE IF titleIncludes(ds, q) # <<>> THEN <<titleIncludes(ds, q)[1].id>>
  ELSE <<>>

\* C13: the id a detail command resolves is the one strict priority gives
\* over the whole list: a record whose id equals the query wins even when an
\* earlier record's id merely starts with it; else the first id prefix; a
\* title match only when no id matches.
\* Violated: one find tests "equals or starts with" record by record, so an
\* earlier record whose id starts with the query shadows the exact match.
C13_ExactIdBeforePrefix ==
  Resolved => (IF id = <<>> THEN <<>> ELSE <<id>>) = strictPriority(docs, query)

\* ---------------------------------------------------------------------- C14

idPrefixOfOnly(ds, i, q) ==
  /\ q # <<>> /\ startsWith(ds[i].id, q)
  /\ \A j \in 1..Len(ds) : startsWith(ds[j].id, q) => j = i

titleMatchOfOnly(ds, i, q) ==
  /\ q # <<>> /\ includes(toLowerCase(ds[i].title), toLowerCase(q))
  /\ idStartsWith(ds, q) = <<>>
  /\ \A j \in 1..Len(ds) : includes(toLowerCase(ds[j].title), toLowerCase(q)) => j = i

\* C14: for every listed meeting, a query equal to its id, or a prefix of its
\* id alone, or a substring of its title (alone, and matching no id) resolves
\* to that meeting; a query matching no id, id prefix or title yields not
\* found.
\* Violated in its first case by the merged test of C13: the query a1 resolves
\* to a12 when a12 is listed first.
C14_KnownMeetingResolves ==
  Resolved =>
    /\ \A i \in 1..Len(docs) :
         /\ docs[i].id = query => id = docs[i].id
         /\ idPrefixOfOnly(docs, i, query) => id = docs[i].id
         /\ titleMatchOfOnly(docs, i, query) => id = docs[i].id
    /\ strictPriority(docs, query) = <<>> => (id = <<>> /\ exitCode = 4)

\* the cases of C14 other than the exact id
C14_UniquePrefixOrTitleResolves ==
  Resolved =>
    /\ \A i \in 1..Len(docs) :
         /\ idPrefixOfOnly(docs, i, query) => id = docs[i].id
         /\ titleMatchOfOnly(docs, i, query) => id = docs[i].id
    /\ strictPriority(docs, query) = <<>> => (id = <<>> /\ exitCode = 4)

\* ---------------------------------------------------------------------- C15

\* the control points inside listMeetings
ListingPcs == {"lm_client", "lm_cache", "lf_folder", "lf_page"}

\* this step is the one in which resolveMeetingId's listing returns a list (its
\* last effect succeeded) and the list holds no match for the query
ResolutionFindsNothing ==
  /\ cmd \in DetailCmds
  /\ pc \in ListingPcs /\ pc' \notin ListingPcs
  /\ log'[Len(log')].outcome = "ok"
  /\ resolveMeetingIdFromList(docs', query) = <<>>

\* the fetches of one meeting's details
DetailEvents == MetadataEvents \cup SubordinateEvents

\* C15: when resolution finds no match the command ends there with exit code
\* 4 and the message "Meeting not found for: <query>" carrying the query as the
\* user gave it; no detail was fetched, no second snapshot load happened, and
\* nothing happens after the command has ended.
C15_NoMatchEndsWithNotFound ==
  [][/\ pc # "done"
     /\ ResolutionFindsNothing =>
          /\ pc' = "done" /\ exitCode' = 4
          /\ stderr' = <<Message("Meeting not found for: ", query)>>
          /\ id' = <<>> /\ out' = NoOut
          /\ DetailEvents' = {} /\ Cardinality(CacheEvents') <= 1]_vars

C15_Witness ==
  /\ cmd = "meeting transcript" /\ query = <<"z">> /\ mode = "auto"
  /\ Done /\ exitCode = 4 /\ id = <<>> /\ docs # <<>>
  /\ stderr = <<Message("Meeting not found for: ", <<"z">>)>>
  /\ log[Len(log)].op = "getDocuments" /\ log[Len(log)].outcome = "ok"

\* ---------------------------------------------------------------------- C19

Failed == Done /\ exitCode # 0

LastEvent == log[Len(log)]

\* the command ended on a token that could not be read
AuthCause == log # <<>> /\ LastEvent.op = "token" /\ LastEvent.outcome # "ok"

\* the command ended on a request that failed
TransportCause ==
  log # <<>> /\ LastEvent.op \notin {"token", "cache"} /\ LastEvent.outcome # "ok"

\* the command ended on a snapshot that could not be loaded
CacheLoadCause == log # <<>> /\ LastEvent.op = "cache" /\ LastEvent.outcome # "ok"

\* an invalid flag value, or sync with the network disabled
InvalidConfig ==
  \/ ~outputFormatOk(programOpts(flags))
  \/ getSourceMode(programOpts(flags)) = "invalid"
  \/ (cmd = "sync" /\ mode = "cache")

NotFoundTexts ==
  {"Meeting not found for: ", "No summary available for: ",
   "No transcript available for: ", "Folder not found: "}

\* C19: a command that fails ends with one code of {1, 2, 4, 5} and a message:
\* 2 exactly when it ended on an unreadable token, 1 exactly when it ended on a
\* failed request or a failed snapshot load, 5 only for an invalid flag value
\* or configuration, 4 only with a not-found message about the user's query.
C19_ExitCodeByCause ==
  Failed =>
    /\ exitCode \in {1, 2, 4, 5}
    /\ stderr # <<>>
    /\ exitCode = 2 <=> AuthCause
    /\ exitCode = 1 <=> (TransportCause \/ CacheLoadCause)
    /\ exitCode = 5 => (InvalidConfig /\ ~AuthCause /\ ~TransportCause /\ ~CacheLoadCause)
    /\ exitCode = 4 => (stderr[1].text \in NotFoundTexts /\ stderr[1].arg = query)

C19_Witness ==
  /\ Failed /\ mode = "api" /\ cmd = "meeting list"
  /\ TransportCause /\ LastEvent.outcome = "network error"
  /\ exitCode = 1

\* ---------------------------------------------------------------------- C20

\* C20: a snapshot load that fails is the last thing the command does: the
\* command ends with exit code 1 and prints nothing, whatever the mode and
\* whatever was tried before; nothing is computed from an empty state.
C20_CacheLoadFailureIsFatal ==
  \A i \in CacheEvents :
    log[i].outcome # "ok" =>
      /\ i = Len(log)
      /\ Done /\ exitCode = 1 /\ out = NoOut
      /\ stderr # <<>> /\ stderr[1].text = "Granola cache not found at "

C20_Witness ==
  /\ mode = "auto" /\ cmd = "meeting list"
  /\ RequestEvents # {} /\ RemoteFailed
  /\ CacheLoadCause /\ Done /\ exitCode = 1 /\ out = NoOut

\* ---------------------------------------------------------------------- C17

ItemIds == {out.items[i].id : i \in 1..Len(out.items)}

\* the folder the filter value designates, in the source that answered
remoteTarget == findRemoteFolder(RemoteLists, lopts.folder)
cacheTarget == findCacheFolder(getFoldersFromCache(CacheFile), lopts.folder)

\* a list with a folder filter was printed, and the folder exists in the
\* source that answered
FolderListFromRemote ==
  ListPrinted /\ lopts.folder # <<>> /\ CacheEvents = {} /\ remoteTarget # <<>>
FolderListFromCache ==
  ListPrinted /\ lopts.folder # <<>> /\ CacheEvents # {} /\ cacheTarget # <<>>

\* C17: the folder filter designates a folder by its exact id or by a
\* case-insensitive substring of its title ("sAL" and the id f1 both designate
\* Sales), and every meeting of the printed list, whichever source answered,
\* has its id in the membership list of that folder.
C17_FolderFilterKeepsMembers ==
  /\ FolderListFromRemote => ItemIds \subseteq folderDocIds(remoteTarget[1])
  /\ FolderListFromCache =>
       ItemIds \subseteq memberIds(Lookup(Field(CacheFile, "documentLists"), cacheTarget[1].id))
  /\ (FolderListFromRemote /\ lopts.folder \in {<<"s", "A", "L">>, Id_f1}) =>
       (remoteTarget[1].id = Id_f1 /\ remoteTarget[1].title = T_Sales)
  /\ (FolderListFromCache /\ lopts.folder \in {<<"s", "A", "L">>, Id_f1}) =>
       (cacheTarget[1].id = Id_f1 /\ cacheTarget[1].title = T_Sales)

C17_Witness ==
  /\ FolderListFromRemote /\ lopts.folder = <<"s", "A", "L">>
  /\ remoteTarget[1].id = Id_f1
  /\ limitOf(lopts) = 2 /\ lopts.attendee = <<>> /\ lopts.since = 0 /\ lopts.until = 0
  /\ ItemIds = {Id_a1, Id_a12}

C17_WitnessFromCache ==
  /\ FolderListFromCache /\ lopts.folder = Id_f1
  /\ ItemIds # {} /\ Len(getMeetings(CacheFile)) > Len(out.items)

\* ---------------------------------------------------------------------- C12

\* a snapshot holding what the service holds: the same documents in the same
\* order, the same folders with the same members
folderMembers(f) == IF f.has_document_ids THEN f.document_ids ELSE f.documents

SnapshotOfRemote ==
  [documents |-> [i \in 1..Len(RemoteDocs) |-> <<RemoteDocs[i].id, RemoteDocs[i]>>],
   documentLists |->
     [i \in 1..Len(RemoteLists) |-> <<RemoteLists[i].id, folderMembers(RemoteLists[i])>>],
   documentListsMetadata |->
     [i \in 1..Len(RemoteLists) |->
        <<RemoteLists[i].id,
          [id |-> RemoteLists[i].id, title |-> RemoteLists[i].title,
           name |-> RemoteLists[i].name, deleted_at |-> 0]>>]]

IdsOf(ds) == [i \in 1..Len(ds) |-> ds[i].id]

\* a list of natural limit was answered by the service, which served its
\* records in one page
ListFromOnePage ==
  /\ cmd = "meeting list" /\ ListPrinted /\ CacheEvents = {}
  /\ env.pageSize >= Len(RemoteDocs) /\ limitOf(lopts) >= 0

\* C12: over the same documents and folders and with the same options, the
\* list the service answers in one page and the list computed from a snapshot
\* have the same sequence of ids, a folder value that designates no folder
\* included.
\* Violated: listFromApi drops the folder filter when the value designates no
\* folder and lists every meeting; listFromCache lists nothing.
C12_RemoteListEqualsCacheList ==
  ListFromOnePage => IdsOf(out.items) = IdsOf(listFromCache(SnapshotOfRemote, lopts))

\* the two agree when the folder filter is absent or designates a folder
C12_SameListForKnownFolder ==
  (ListFromOnePage /\ (lopts.folder = <<>> \/ remoteTarget # <<>>))
    => IdsOf(out.items) = IdsOf(listFromCache(SnapshotOfRemote, lopts))

\* the two disagree on a folder value that designates no folder
C12_UnknownFolderDiffers ==
  /\ ListFromOnePage /\ lopts.folder = <<"z">> /\ limitOf(lopts) = 2
  /\ Len(out.items) = 2
  /\ listFromCache(SnapshotOfRemote, lopts) = <<>>

\* ---------------------------------------------------------------------- C16

\* the list the source that answered computes for other options
SourceList(options) ==
  IF CacheEvents = {} THEN listFromApi(options, env.pageSize)
  ELSE listFromCache(CacheFile, options)

\* the action chain of listFromApi computes what the function computes
ListFromApiIsTheFunction ==
  (ListPrinted /\ CacheEvents = {}) => out.items = listFromApi(lopts, env.pageSize)

NoBound(b) == b = 0 \/ getTime(b) = NaN

\* the options of the printed list with a date window at least as wide
WiderWindows ==
  {[lopts EXCEPT !.since = s, !.until = u] : s \in
     {x \in SinceArgs : NoBound(x) \/ (~NoBound(lopts.since) /\ x <= lopts.since)},
   u \in {x \in UntilArgs : NoBound(x) \/ (~NoBound(lopts.until) /\ x >= lopts.until)}}

\* a limit no list reaches
Unlimited(options) ==
  [options EXCEPT !.limit = <<Len(RemoteDocs) + Len(CacheFile.documents) + 1>>]

IdSet(ds) == {ds[i].id : i \in 1..Len(ds)}

Range(ds) == {ds[i] : i \in 1..Len(ds)}

undated(d) == dateOf(d) = 0

DateListPrinted == ListPrinted /\ cmd = "meeting list"

\* the printed list was not cut by the limit
NotCut == Len(out.items) < limitOf(lopts)

\* a record without any date is in the printed list whenever the same query
\* without window lists it and the printed list was not cut by the limit
UndatedKept ==
  (DateListPrinted /\ NotCut) =>
    \A d \in Range(SourceList(Unlimited([lopts EXCEPT !.since = 0, !.until = 0]))) :
      undated(d) => d.id \in ItemIds

\* an unparseable bound changes nothing
BadBoundIgnored ==
  DateListPrinted =>
    /\ getTime(lopts.since) = NaN => out.items = SourceList([lopts EXCEPT !.since = 0])
    /\ getTime(lopts.until) = NaN => out.items = SourceList([lopts EXCEPT !.until = 0])

\* C16 as stated: the ids of a list are among the ids of the same list with
\* a wider date window or none, a record without a date is never removed by
\* the window, and an unparseable bound behaves as no bound.
\* Violated in its first part: the list is cut to the limit after sorting, so
\* a window that removes the newest records lets older ones in.
C16_WindowNarrowsTheList ==
  /\ DateListPrinted => \A w \in WiderWindows : ItemIds \subseteq IdSet(SourceList(w))
  /\ UndatedKept
  /\ BadBoundIgnored

\* C16 amended: the ids of a list are among the ids the same query lists
\* with a wider date window or none when no limit cuts it; a record without a
\* date is never removed by the window; an unparseable bound behaves as no
\* bound.
C16_WindowNarrowsTheUncutList ==
  /\ DateListPrinted =>
       \A w \in WiderWindows : ItemIds \subseteq IdSet(SourceList(Unlimited(w)))
  /\ UndatedKept
  /\ BadBoundIgnored

C16_Witness ==
  /\ DateListPrinted /\ CacheEvents = {} /\ limitOf(lopts) = 2
  /\ lopts.since = 5 /\ lopts.until = BadDate
  /\ lopts.folder = <<>> /\ lopts.attendee = <<>>
  /\ ItemIds = {Id_g6}
  /\ Len(SourceList([lopts EXCEPT !.since = 0])) = 2
  /\ Id_g6 \notin IdSet(SourceList([lopts EXCEPT !.since = 0]))

\* ---------------------------------------------------------------------- C18

\* the lookups of cache.ts, each applied to a loaded snapshot and an id or name

LookupFns ==
  {"getDocumentById", "getTranscript", "getEnhancedNotes", "getDocumentsByFolderFromCache"}

\* the snapshot without some of its maps
Without(state, keys) == [k \in DOMAIN state \ keys |-> state[k]]

\* the snapshots: the whole one (it has transcripts, panels and folder members
\* keyed by e5, which is not a document), and snapshots lacking maps
Snapshots ==
  {CacheFile,
   Without(CacheFile, {"documents"}),
   Without(CacheFile, {"transcripts", "documentPanels"}),
   Without(CacheFile, {"documentLists"}),
   Without(CacheFile, {"documentListsMetadata"}),
   Without(CacheFile, DOMAIN CacheFile)}

LookupArgs ==
  {Id_a1, Id_a12, Id_b2, Id_e5, Id_f1, Id_f2, <<"s", "A", "L">>, <<"z">>, <<>>}

LookupInit ==
  /\ cmd \in LookupFns
  /\ query \in LookupArgs
  /\ env \in [state : Snapshots]
  /\ flags = [source |-> "cache", noNetwork |-> FALSE, output |-> "json"]
  /\ largs = NoOptions
  /\ pc = "start"
  /\ mode = "none"
  /\ client = FALSE
  /\ lopts = NoOptions
  /\ cursor = 0
  /\ results = <<>>
  /\ folderIds = <<>>
  /\ fvIds = {}
  /\ docs = <<>>
  /\ id = <<>>
  /\ doc = <<>>
  /\ notes = <<>>
  /\ summary = <<>>
  /\ transcript = <<>>
  /\ log = <<>>
  /\ out = NoOut
  /\ exitCode = -1
  /\ stderr = <<>>

\* the lookup reads the maps of keys and returns v, or throws on a read
LookupEnds(keys, v) ==
  /\ IF \E k \in keys : fieldThrows(env.state, k)
     THEN Throw(PlainError(Message("Cannot read properties of undefined", <<>>))) /\ out' = out
     ELSE Exit(0) /\ out' = v
  /\ UNCHANGED <<inputs, mode, client, lopts, listFrame, fvIds, docs, id, detail, log>>

CallGetDocumentById ==
  /\ pc = "start" /\ cmd = "getDocumentById"
  /\ LookupEnds({"documents"},
                [NoOut EXCEPT !.kind = "lookup", !.doc = getDocumentById(env.state, query)])

CallGetTranscript ==
  /\ pc = "start" /\ cmd = "getTranscript"
  /\ LookupEnds({"transcripts"},
                [NoOut EXCEPT !.kind = "lookup", !.transcript = getTranscript(env.state, query)])

CallGetEnhancedNotes ==
  /\ pc = "start" /\ cmd = "getEnhancedNotes"
  /\ LookupEnds({"documentPanels"},
                [NoOut EXCEPT !.kind = "lookup", !.notes = getEnhancedNotes(env.state, query)])

CallGetDocumentsByFolderFromCache ==
  /\ pc = "start" /\ cmd = "getDocumentsByFolderFromCache"
  /\ LookupEnds({"documentListsMetadata", "documentLists", "documents"},
                [NoOut EXCEPT !.kind = "lookup",
                              !.items = getDocumentsByFolderFromCache(env.state, query)])

LookupNext ==
  \/ CallGetDocumentById
  \/ CallGetTranscript
  \/ CallGetEnhancedNotes
  \/ CallGetDocumentsByFolderFromCache

LookupSpec == LookupInit /\ [][LookupNext]_vars

\* the keys of a map of the snapshot, none when the snapshot lacks the map
KeysOf(state, key) ==
  IF key \in DOMAIN state THEN {state[key][i][1] : i \in 1..Len(state[key])} ELSE {}

\* the documents the snapshot holds
DocsOf(state) ==
  IF "documents" \in DOMAIN state
  THEN {state.documents[i][2] : i \in 1..Len(state.documents)} ELSE {}

\* the name designates a folder of the snapshot that is not deleted
NamesFolder(state, name) ==
  /\ "documentListsMetadata" \in DOMAIN state
  /\ \E i \in 1..Len(state.documentListsMetadata) :
       /\ state.documentListsMetadata[i][2].deleted_at = 0
       /\ \/ state.documentListsMetadata[i][2].id = name
          \/ includes(toLowerCase(OrStr(OrStr(state.documentListsMetadata[i][2].title,
                                              state.documentListsMetadata[i][2].name),
                                        Untitled)),
                      toLowerCase(name))

\* C18: on every snapshot, one with dangling keys or lacking whole maps
\* included, each of the four lookups returns and does not throw; for an id
\* that is not a key of the map it reads, or a name that designates no folder,
\* it returns undefined, null or the empty list; the folder lookup returns
\* only documents the snapshot holds.
C18_LookupsNeverThrow ==
  Done =>
    /\ exitCode = 0 /\ stderr = <<>> /\ out.kind = "lookup"
    /\ (cmd = "getDocumentById" /\ query \notin KeysOf(env.state, "documents"))
         => out.doc = <<>>
    /\ (cmd = "getTranscript" /\ query \notin KeysOf(env.state, "transcripts"))
         => out.transcript = <<>>
    /\ (cmd = "getEnhancedNotes" /\ query \notin KeysOf(env.state, "documentPanels"))
         => out.notes = <<>>
    /\ (cmd = "getDocumentsByFolderFromCache" /\ ~NamesFolder(env.state, query))
         => out.items = <<>>
    /\ cmd = "getDocumentsByFolderFromCache"
         => \A i \in 1..Len(out.items) : out.items[i] \in DocsOf(env.state)

\* the transcript of e5, which is not a document, on a snapshot with no
\* documents map
C18_Witness ==
  /\ Done /\ exitCode = 0
  /\ cmd = "getTranscript" /\ query = Id_e5
  /\ "documents" \notin DOMAIN env.state
  /\ out.transcript # <<>>

\* the folder Sales, one of whose members is not a document
C18_WitnessDanglingMember ==
  /\ Done /\ exitCode = 0
  /\ cmd = "getDocumentsByFolderFromCache" /\ query = <<"s", "A", "L">>
  /\ env.state = CacheFile
  /\ Len(out.items) = 2

\* ---------------------------------------------------------------------- C21

\* C21: one invocation loads the snapshot from disk at most once, and every
\* value it takes from the cache comes from that one load.
\* Violated: a detail command whose listing is answered by the cache loads the
\* snapshot in listMeetings and loads it again in its own handler.
C21_SnapshotLoadedAtMostOnce == Cardinality(CacheEvents) <= 1

\* what does hold: the list and direct commands load at most once, a detail
\* command at most twice (once to resolve the id, once for the details)
C21_LoadsPerCommand ==
  Cardinality(CacheEvents) <= IF cmd \in DetailCmds THEN 2 ELSE 1

\* a detail command printed an answer after two loads of the snapshot
C21_TwoLoads ==
  /\ cmd = "meeting view" /\ mode = "cache" /\ Done /\ exitCode = 0
  /\ Cardinality(CacheEvents) = 2
  /\ out.doc # <<>>

\* ---------------------------------------------------------------------- C22

\* the requests of listFromApi in the log: the folder lookup and the pages
FolderEvents == {i \in 1..Len(log) : log[i].op = "getDocumentLists"}
PageEvents == {i \in 1..Len(log) : log[i].op = "getDocuments" /\ ~log[i].panel}

\* the page request that precedes page request j, 0 when j is the first
PrevPage(j) ==
  IF \E i \in PageEvents : i < j
  THEN CHOOSE i \in PageEvents : i < j /\ \A k \in PageEvents : k < j => k <= i
  ELSE 0

\* the cursor the service returned in answer to page request i
ReturnedCursor(i) ==
  ServePage(PageRequestLimit, log[i].cursor, FALSE, env.pageSize).next_cursor

\* C22: the requests of listFromApi are issued one after the other, each
\* after the answer to the one before.  The folder lookup is issued exactly
\* once when a folder filter is set (never otherwise), it has succeeded before
\* the first page request; the first page request carries no cursor; each
\* later one follows a page that was answered and carries the cursor of that
\* answer.
C22_ListRequestsAreSequential ==
  cmd \in MeetingListCmds \cup DetailCmds =>
    /\ Cardinality(FolderEvents) <= 1
    /\ FolderEvents # {} => lopts.folder # <<>>
    /\ (Done /\ exitCode = 0 /\ CacheEvents = {} /\ lopts.folder # <<>>)
         => Cardinality(FolderEvents) = 1
    /\ \A j \in PageEvents :
         /\ lopts.folder # <<>> =>
              \E f \in FolderEvents : f < j /\ log[f].outcome = "ok"
         /\ PrevPage(j) = 0 => log[j].cursor = 0
         /\ PrevPage(j) # 0 =>
              /\ log[PrevPage(j)].outcome = "ok"
              /\ ReturnedCursor(PrevPage(j)) # 0
              /\ log[j].cursor = ReturnedCursor(PrevPage(j))

\* a list with a folder filter that took a folder lookup and three pages
C22_Witness ==
  /\ cmd = "meeting list" /\ ListPrinted /\ lopts.folder # <<>>
  /\ Cardinality(FolderEvents) = 1
  /\ Cardinality(PageEvents) = 3
  /\ \E j \in PageEvents : log[j].cursor = 4

\* ---------------------------------------------------------------------- C23

\* meeting list --source api run to its end: the process is single-threaded
\* and every awaited operation completes, with an answer or with an error, so
\* a step that is possible is eventually taken
ListNext ==
  \/ Begin
  \/ GetApiClient
  \/ ApiGetDocumentLists
  \/ ApiGetDocuments

\* granola --source api meeting list [--limit n] [--folder f]
ListInit ==
  /\ Init
  /\ cmd = "meeting list" /\ flags.source = "api"
  /\ ~flags.noNetwork /\ flags.output = "json"
  /\ largs.attendee = <<>> /\ largs.since = 0 /\ largs.until = 0

ListLiveSpec == ListInit /\ [][ListNext]_vars /\ WF_vars(ListNext)

\* the last page request of the log
LastPage == CHOOSE j \in PageEvents : \A k \in PageEvents : k <= j

\* the number of records of the first c the service holds that pass the filters
Accumulated(c) == Len(filterPage(SubSeq(RemoteDocs, 1, c), lopts, folderIds))

\* no page is requested once the accumulated count has reached the limit (none
\* at all for a limit <= 0), and the loop does not stop before: a list the
\* service answered ends on a count that has reached the limit or on an answer
\* without a cursor
StopsExactlyThen ==
  /\ \A j \in PageEvents : Accumulated(log[j].cursor) < limitOf(lopts)
  /\ limitOf(lopts) <= 0 => PageEvents = {}
  /\ pc = "lf_page" => Len(results) < limitOf(lopts)
  /\ (Done /\ exitCode = 0 /\ CacheEvents = {}) =>
       \/ Len(results) >= limitOf(lopts)
       \/ (PageEvents # {} /\ ReturnedCursor(LastPage) = 0)

\* C23: listFromApi requests a page only while the accumulated filtered count
\* is below the limit and the last answer carried a cursor, it stops as soon
\* as one of the two fails, and the command comes to its end.
C23_LoopStopsAndTerminates == [](StopsExactlyThen) /\ <>Done

\* the loop stopped on the limit while the service had more pages
C23_Witness ==
  /\ Done /\ exitCode = 0 /\ CacheEvents = {}
  /\ limitOf(lopts) = 2 /\ Len(results) = 2 /\ lopts.folder = <<>>
  /\ Cardinality(PageEvents) = 3
  /\ ReturnedCursor(LastPage) # 0

\* ---------------------------------------------------------------------- C24

\* ApiClient.post and getDocumentTranscript on one answer of fetch

\* a Response: ok is status in 200..299; reading the body yields text, or
\* fails when the body is not readable; json is what the body parses to
Response(status, statusText, readable, text, json) ==
  [ok |-> status \in 200..299, status |-> status, statusText |-> statusText,
   readable |-> readable, text |-> text, json |-> json]

Statuses == {200, 204, 400, 401, 404, 500}

MaxSegments == 2

\* the segments a body may hold: up to MaxSegments of two distinct ones
SegmentLists ==
  UNION {[1..n -> {Seg(<<"h", "i">>, Microphone, <<>>, <<"0", "1">>),
                   Seg(<<"y", "o">>, System, <<"B", "o">>, <<>>)}] : n \in 0..MaxSegments}

\* the parsed bodies: a bare array of segments ("array"), an object with the
\* segments in its transcript field ("wrapped"), an object that holds them
\* under another name and has no transcript field ("object")
Responses ==
  {Response(st, stt, rd, tx, [shape |-> sh, segs |-> sg]) :
     st \in Statuses, stt \in {<<>>, <<"N", "o">>}, rd \in BOOLEAN,
     tx \in {<<>>, <<"{", "}">>}, sh \in {"array", "wrapped", "object"}, sg \in SegmentLists}

\* await response.text().catch(() => '')
textOf(response) == IF response.readable THEN response.text ELSE <<>>

\* new Error(`API error ${status}: ${body}`) with error.status = status
ApiError(status, body) ==
  [cli |-> FALSE, message |-> Message("API error ", <<status, body>>), status |-> status]

\* a post that hands the parsed body back whatever the status
postWithoutStatusTest(response) == [threw |-> FALSE, value |-> response.json]

\* post after fetch resolved: the error thrown or the value returned
post(response) ==
  IF ~response.ok
  THEN [threw |-> TRUE,
        error |-> ApiError(response.status, OrStr(textOf(response), response.statusText))]
  ELSE [threw |-> FALSE, value |-> response.json]

PostInit ==
  /\ cmd \in {"post", "getDocumentTranscript"}
  /\ env \in [network : BOOLEAN, response : Responses]
  /\ query = <<>>
  /\ flags = [source |-> "api", noNetwork |-> FALSE, output |-> "json"]
  /\ largs = NoOptions
  /\ pc = "start"
  /\ mode = "none"
  /\ client = TRUE
  /\ lopts = NoOptions
  /\ cursor = 0
  /\ results = <<>>
  /\ folderIds = <<>>
  /\ fvIds = {}
  /\ docs = <<>>
  /\ id = <<>>
  /\ doc = <<>>
  /\ notes = <<>>
  /\ summary = <<>>
  /\ transcript = <<>>
  /\ log = <<>>
  /\ out = NoOut
  /\ exitCode = -1
  /\ stderr = <<>>

\* await fetch(...): it rejects (and post with it) or resolves with the Response
Fetch ==
  /\ pc = "start"
  /\ IF env.network
     THEN /\ pc' = "p_response"
          /\ UNCHANGED <<log, stderr>>
     ELSE /\ pc' = "done"
          /\ log' = Append(log, Event("post", 0, FALSE, "network error"))
          /\ stderr' = <<PlainError(Message("fetch failed", <<>>))>>
  /\ UNCHANGED <<inputs, mode, client, lopts, listFrame, fvIds, docs, id, detail, out, exitCode>>

\* the rest of post, and of getDocumentTranscript when it is the caller: the
\* caller gets the value (out) or the error (stderr)
PostSettles ==
  /\ pc = "p_response"
  /\ pc' = "done"
  /\ log' = Append(log, Event("post", 0, FALSE,
                              IF post(env.response).threw THEN "http error" ELSE "ok"))
  /\ IF post(env.response).threw
     THEN stderr' = <<post(env.response).error>> /\ out' = out
     ELSE /\ out' = [NoOut EXCEPT
                       !.kind = "data",
                       !.items = IF cmd = "getDocumentTranscript"
                                 THEN transcriptOf(post(env.response).value)
                                 ELSE post(env.response).value]
          /\ stderr' = stderr
  /\ UNCHANGED <<inputs, mode, client, lopts, listFrame, fvIds, docs, id, detail, exitCode>>

PostNext == Fetch \/ PostSettles

PostSpec == PostInit /\ [][PostNext]_vars

\* post has settled on an answer of fetch
Answered == Done /\ env.network

\* C24: a call answered with a non-success status ends with an error that has
\* the status and, in its message, the text of the body when the body could be
\* read and is not empty; when the body cannot be read the error is still the
\* one with the status; nothing is returned as data.  An answer with a success
\* status is returned as data.
C24_NonSuccessIsAnErrorWithStatus ==
  Answered =>
    IF env.response.ok
    THEN /\ stderr = <<>> /\ out.kind = "data"
         /\ cmd = "post" => out.items = env.response.json
    ELSE /\ out = NoOut
         /\ Len(stderr) = 1
         /\ stderr[1].message.text = "API error "
         /\ stderr[1].status = env.response.status
         /\ stderr[1].message.arg[1] = env.response.status
         /\ (env.response.readable /\ env.response.text # <<>>)
              => stderr[1].message.arg[2] = env.response.text
         /\ ~env.response.readable
              => stderr[1].message.arg[2] \in {<<>>, env.response.statusText}
         /\ log[Len(log)].outcome = "http error"

\* a 500 whose body cannot be read
C24_Witness ==
  /\ Answered
  /\ env.response.status = 500 /\ ~env.response.readable /\ env.response.text # <<>>
  /\ stderr[1].status = 500

\* ---------------------------------------------------------------------- C25

\* getDocumentTranscript has returned
TranscriptReturned == Answered /\ cmd = "getDocumentTranscript" /\ env.response.ok

C25_WitnessNoField ==
  /\ TranscriptReturned
  /\ env.response.json.shape = "object" /\ Len(env.response.json.segs) = 2
  /\ out.items = <<>>

\* ---------------------------------------------------------------------- C26

\* C26: in auto mode a meeting command reads the cache only after a token read
\* or a request of that command has failed.
C26_CacheReadOnlyAfterRemoteFailure ==
  (mode = "auto" /\ cmd \in MeetingListCmds \cup DetailCmds) =>
    \A i \in CacheEvents :
      \E j \in 1..(i - 1) : log[j].op # "cache" /\ log[j].outcome # "ok"

====
